---- MODULE Spec2Model ----
(***************************************************************************)
(* Model of the Cart aggregate of src/class/cart.ts: the item map          *)
(* (reference -> price bucket), the promotion registry (code -> rule, in   *)
(* insertion order) and the public operations.                             *)
(*                                                                         *)
(* Every public method is translated into an operator that maps the        *)
(* current state and the call's arguments to an outcome record             *)
(*   [err, ret, items, promotions]                                         *)
(* (err = "none" when the call returns, otherwise the error kind thrown;   *)
(* ret the value returned; items, promotions the state the call leaves),   *)
(* and into an action that draws the arguments and installs the outcome.   *)
(* A property of a call is a property of its outcome in every reachable    *)
(* state and for every argument drawn.                                     *)
(*                                                                         *)
(* Numbers are JavaScript numbers restricted to the integers plus the two  *)
(* values Infinity and NaN.  Amounts of money are counted in hundredths,   *)
(* so that price * (1 - percent/100) is the integer price * (100-percent). *)
(* Strings are sequences of one-character strings so that trim() is        *)
(* computed, not assumed.                                                  *)
(***************************************************************************)
EXTENDS Integers, Sequences, FiniteSets, TLC

VARIABLES items, promotions, ledger, calls

vars == <<items, promotions, ledger, calls>>

----------------------------------------------------------------------------
(* Bounds of the exploration *)

\* The cart never holds more than MaxUnits units in total (guard of add).
MaxUnits == 3

\* The largest bucket of the states the allocation of the free units is
\* explored from (InitAlloc).
MaxBucketUnits == 7

----------------------------------------------------------------------------
(* JavaScript numbers *)

Infinity == 1000000
NaN == -1000000
\* `minPrice?: number` / `price?: number` left out by the caller
undefined == -2000000

IsNaN(x) == x = NaN
IsInteger(x) == x # NaN /\ x # Infinity
\* a <= b and a < b on numbers: every comparison with NaN is false
Leq(a, b) == a # NaN /\ b # NaN /\ a <= b
Lt(a, b) == a # NaN /\ b # NaN /\ a < b
\* a * b for a, b >= 0 or NaN
Times(a, b) ==
    IF a = NaN \/ b = NaN THEN NaN
    ELSE IF a = Infinity \/ b = Infinity
         THEN (IF a = 0 \/ b = 0 THEN NaN ELSE Infinity)
         ELSE a * b
\* a + b for a, b >= 0 or NaN
Plus(a, b) ==
    IF a = NaN \/ b = NaN THEN NaN
    ELSE IF a = Infinity \/ b = Infinity THEN Infinity
    ELSE a + b

----------------------------------------------------------------------------
(* Strings *)

Blank == " "
\* Order of the characters used ("A" < "B" < "P" < "Q", the blank before them)
CharRank(c) == IF c = Blank THEN 0 ELSE IF c = "A" THEN 1 ELSE IF c = "B" THEN 2
               ELSE IF c = "P" THEN 3 ELSE 4
CharLt(a, b) == CharRank(a) < CharRank(b)
RECURSIVE trimStart(_)
trimStart(s) ==
    IF s # << >> /\ Head(s) = Blank THEN trimStart(Tail(s)) ELSE s
RECURSIVE trimEnd(_)
trimEnd(s) ==
    IF s # << >> /\ s[Len(s)] = Blank THEN trimEnd(SubSeq(s, 1, Len(s) - 1)) ELSE s
trim(s) == trimEnd(trimStart(s))

----------------------------------------------------------------------------
(* Inputs of the calls *)

RefA == <<"A">>
RefB == <<"B">>
RawReferences == { <<Blank>>, RefA, <<Blank, "A", Blank>>, RefB }
Code1 == <<"P">>
Code2 == <<"Q">>
RawCodes == { << >>, <<Blank>>, Code1, <<Blank, "P">>, Code2 }
PriceInputs == { NaN, 0, 10, 12 }
QuantityInputs == { NaN, 0, 1, 2, 3 }
\* <<percent, minPrice>> of the registerPromotion calls: two rules that can
\* be stored (10% on every price, 20% from price 12) and two that cannot
PercentOffers == { <<10, undefined>>, <<20, 12>>, <<100, undefined>>, <<10, 0>> }
ThresholdInputs == { 1, 2 }

----------------------------------------------------------------------------
(* Maps *)

EmptyMap == << >>
Has(map, key) == key \in DOMAIN map
\* Map.set
MapSet(map, key, value) ==
    [k \in DOMAIN map \cup {key} |-> IF k = key THEN value ELSE map[k]]
\* Map.delete
MapDelete(map, key) == [k \in DOMAIN map \ {key} |-> map[k]]

----------------------------------------------------------------------------
(* Outcomes *)

\* A call that throws leaves the maps as the call had made them when it threw;
\* a call that returns leaves them as they are at its return.
Throw(kind, itemsNow, promotionsNow) ==
    [err |-> kind, ret |-> FALSE, items |-> itemsNow, promotions |-> promotionsNow]
Return(itemsNow, promotionsNow, value) ==
    [err |-> "none", ret |-> value, items |-> itemsNow, promotions |-> promotionsNow]

----------------------------------------------------------------------------
(* Private helpers of Cart *)

\* throws 'Reference must be a non-empty string'
normalizeReference(reference) == trim(reference)
InvalidReference(reference) == normalizeReference(reference) = << >>

\* throws 'Promotion code must be a non-empty string'
normalizePromotionCode(code) == trim(code)
InvalidPromotionCode(code) == normalizePromotionCode(code) = << >>

\* assertQuantity throws exactly when this holds
InvalidQuantity(quantity) == ~IsInteger(quantity) \/ Leq(quantity, 0)

\* assertPrice throws exactly when this holds
InvalidPrice(price) == IsNaN(price) \/ Leq(price, 0)

\* assertPercent throws exactly when this holds
InvalidPercent(percent) == ~IsInteger(percent) \/ Leq(percent, 0) \/ ~Lt(percent, 100)

\* assertThreshold throws exactly when this holds
InvalidThreshold(threshold) == ~IsInteger(threshold) \/ Lt(threshold, 2)

RECURSIVE SumOver(_, _)
SumOver(bucket, keys) ==
    IF keys = {} THEN 0
    ELSE LET k == CHOOSE x \in keys : TRUE
         IN bucket[k] + SumOver(bucket, keys \ {k})
sumQuantities(bucket) == SumOver(bucket, DOMAIN bucket)

\* Array.from(bucket.keys()).sort(cmp): the keys are distinct numbers, at
\* most one of them Infinity, so a - b orders them as numbers.
RECURSIVE SortAsc(_)
SortAsc(keys) ==
    IF keys = {} THEN << >>
    ELSE LET m == CHOOSE x \in keys : \A y \in keys : x <= y
         IN <<m>> \o SortAsc(keys \ {m})
Reverse(s) == [i \in 1..Len(s) |-> s[Len(s) + 1 - i]]
\* Mutant: the direction is ignored, the prices always come out ascending.
sortPricesAlwaysAsc(bucket, direction) == SortAsc(DOMAIN bucket)

\* Mutant: the direction is ignored, the prices always come out descending.
sortPricesAlwaysDesc(bucket, direction) == Reverse(SortAsc(DOMAIN bucket))

sortPrices(bucket, direction) ==
    IF direction = "asc" THEN SortAsc(DOMAIN bucket) ELSE Reverse(SortAsc(DOMAIN bucket))

----------------------------------------------------------------------------
(* add *)

\* Mutant: the bucket is resolved (and created) before the arguments are checked.
addCreatesBucketFirst(reference, price, quantity) ==
    IF InvalidReference(reference) THEN Throw("InvalidReference", items, promotions)
    ELSE LET refKey == normalizeReference(reference)
             bucket == IF Has(items, refKey) THEN items[refKey] ELSE EmptyMap
             created == MapSet(items, refKey, bucket)
             existingQuantity == IF Has(bucket, price) THEN bucket[price] ELSE 0
         IN IF InvalidPrice(price) THEN Throw("InvalidPrice", created, promotions)
            ELSE IF InvalidQuantity(quantity) THEN Throw("InvalidQuantity", created, promotions)
            ELSE Return(MapSet(items, refKey,
                               MapSet(bucket, price, existingQuantity + quantity)),
                        promotions, FALSE)

\* Mutant: the quantity of an existing entry is overwritten, not increased.
addOverwrites(reference, price, quantity) ==
    IF InvalidPrice(price) THEN Throw("InvalidPrice", items, promotions)
    ELSE IF InvalidQuantity(quantity) THEN Throw("InvalidQuantity", items, promotions)
    ELSE IF InvalidReference(reference) THEN Throw("InvalidReference", items, promotions)
    ELSE LET refKey == normalizeReference(reference)
             bucket == IF Has(items, refKey) THEN items[refKey] ELSE EmptyMap
         IN Return(MapSet(items, refKey, MapSet(bucket, price, quantity)), promotions, FALSE)

\* Mutant: the item map is replaced by one that holds the added reference
\* alone.
addReplacesItemMap(reference, price, quantity) ==
    IF InvalidPrice(price) THEN Throw("InvalidPrice", items, promotions)
    ELSE IF InvalidQuantity(quantity) THEN Throw("InvalidQuantity", items, promotions)
    ELSE IF InvalidReference(reference) THEN Throw("InvalidReference", items, promotions)
    ELSE LET refKey == normalizeReference(reference)
             bucket == IF Has(items, refKey) THEN items[refKey] ELSE EmptyMap
             existingQuantity == IF Has(bucket, price) THEN bucket[price] ELSE 0
         IN Return(MapSet(EmptyMap, refKey, MapSet(bucket, price, existingQuantity + quantity)),
                   promotions, FALSE)

add(reference, price, quantity) ==
    IF InvalidPrice(price) THEN Throw("InvalidPrice", items, promotions)
    ELSE IF InvalidQuantity(quantity) THEN Throw("InvalidQuantity", items, promotions)
    ELSE IF InvalidReference(reference) THEN Throw("InvalidReference", items, promotions)
    ELSE LET refKey == normalizeReference(reference)
             bucket == IF Has(items, refKey) THEN items[refKey] ELSE EmptyMap
             existingQuantity == IF Has(bucket, price) THEN bucket[price] ELSE 0
         IN Return(MapSet(items, refKey, MapSet(bucket, price, existingQuantity + quantity)),
                   promotions, FALSE)

----------------------------------------------------------------------------
(* remove *)

\* Mutant: an entry is deleted only when it holds less than what remains to be
\* removed, so an entry consumed exactly stays with quantity 0.
RECURSIVE drainKeepsZero(_, _, _)
drainKeepsZero(bucket, pricesDesc, remaining) ==
    IF pricesDesc = << >> \/ remaining = 0 THEN bucket
    ELSE LET price == Head(pricesDesc)
         IN IF ~Has(bucket, price) THEN drainKeepsZero(bucket, Tail(pricesDesc), remaining)
            ELSE LET available == bucket[price]
                 IN IF available < remaining
                    THEN drainKeepsZero(MapDelete(bucket, price), Tail(pricesDesc),
                                        remaining - available)
                    ELSE drainKeepsZero(MapSet(bucket, price, available - remaining),
                                        Tail(pricesDesc), 0)

\* Mutant: an entry consumed in part is deleted with its remainder.
RECURSIVE drainDropsRemainder(_, _, _)
drainDropsRemainder(bucket, pricesDesc, remaining) ==
    IF pricesDesc = << >> \/ remaining = 0 THEN bucket
    ELSE LET price == Head(pricesDesc)
         IN IF ~Has(bucket, price)
            THEN drainDropsRemainder(bucket, Tail(pricesDesc), remaining)
            ELSE LET available == bucket[price]
                 IN IF available <= remaining
                    THEN drainDropsRemainder(MapDelete(bucket, price), Tail(pricesDesc),
                                             remaining - available)
                    ELSE drainDropsRemainder(MapDelete(bucket, price), Tail(pricesDesc), 0)

\* The loop of remove over pricesDesc: returns the bucket after the loop.
RECURSIVE drain(_, _, _)
drain(bucket, pricesDesc, remaining) ==
    IF pricesDesc = << >> \/ remaining = 0 THEN bucket
    ELSE LET price == Head(pricesDesc)
         IN IF ~Has(bucket, price) THEN drain(bucket, Tail(pricesDesc), remaining)
            ELSE LET available == bucket[price]
                 IN IF available <= remaining
                    THEN drain(MapDelete(bucket, price), Tail(pricesDesc), remaining - available)
                    ELSE drain(MapSet(bucket, price, available - remaining), Tail(pricesDesc), 0)

\* Mutant: the entries are drained from the cheapest up once more than one
\* unit is removed.
removeManyCheapestFirst(reference, quantity) ==
    IF InvalidReference(reference) THEN Throw("InvalidReference", items, promotions)
    ELSE LET refKey == normalizeReference(reference)
         IN IF ~Has(items, refKey) THEN Throw("ReferenceNotFound", items, promotions)
            ELSE IF InvalidQuantity(quantity) THEN Throw("InvalidQuantity", items, promotions)
            ELSE LET bucket == items[refKey]
                     totalQuantity == sumQuantities(bucket)
                 IN IF quantity > totalQuantity
                    THEN Throw("InsufficientQuantity", items, promotions)
                    ELSE LET drained == drain(bucket,
                                              sortPrices(bucket,
                                                         IF quantity > 1 THEN "asc" ELSE "desc"),
                                              quantity)
                         IN IF DOMAIN drained = {}
                            THEN Return(MapDelete(items, refKey), promotions, FALSE)
                            ELSE Return(MapSet(items, refKey, drained), promotions, FALSE)

\* Mutant: the sufficiency check lets one unit too many through.
removeOffByOne(reference, quantity) ==
    IF InvalidReference(reference) THEN Throw("InvalidReference", items, promotions)
    ELSE LET refKey == normalizeReference(reference)
         IN IF ~Has(items, refKey) THEN Throw("ReferenceNotFound", items, promotions)
            ELSE IF InvalidQuantity(quantity) THEN Throw("InvalidQuantity", items, promotions)
            ELSE LET bucket == items[refKey]
                     totalQuantity == sumQuantities(bucket)
                 IN IF quantity > totalQuantity + 1
                    THEN Throw("InsufficientQuantity", items, promotions)
                    ELSE LET drained == drain(bucket, sortPrices(bucket, "desc"), quantity)
                         IN IF DOMAIN drained = {}
                            THEN Return(MapDelete(items, refKey), promotions, FALSE)
                            ELSE Return(MapSet(items, refKey, drained), promotions, FALSE)

\* Mutant: a bucket left empty by the loop stays in the item map.
removeKeepsEmptyBucket(reference, quantity) ==
    IF InvalidReference(reference) THEN Throw("InvalidReference", items, promotions)
    ELSE LET refKey == normalizeReference(reference)
         IN IF ~Has(items, refKey) THEN Throw("ReferenceNotFound", items, promotions)
            ELSE IF InvalidQuantity(quantity) THEN Throw("InvalidQuantity", items, promotions)
            ELSE LET bucket == items[refKey]
                     totalQuantity == sumQuantities(bucket)
                 IN IF quantity > totalQuantity
                    THEN Throw("InsufficientQuantity", items, promotions)
                    ELSE Return(MapSet(items, refKey,
                                       drain(bucket, sortPrices(bucket, "desc"), quantity)),
                                promotions, FALSE)

remove(reference, quantity) ==
    IF InvalidReference(reference) THEN Throw("InvalidReference", items, promotions)
    ELSE LET refKey == normalizeReference(reference)
         IN IF ~Has(items, refKey) THEN Throw("ReferenceNotFound", items, promotions)
            ELSE IF InvalidQuantity(quantity) THEN Throw("InvalidQuantity", items, promotions)
            ELSE LET bucket == items[refKey]
                     totalQuantity == sumQuantities(bucket)
                 IN IF quantity > totalQuantity
                    THEN Throw("InsufficientQuantity", items, promotions)
                    ELSE LET drained == drain(bucket, sortPrices(bucket, "desc"), quantity)
                         IN IF DOMAIN drained = {}
                            THEN Return(MapDelete(items, refKey), promotions, FALSE)
                            ELSE Return(MapSet(items, refKey, drained), promotions, FALSE)

----------------------------------------------------------------------------
(* Promotion registry: a sequence of rules in insertion order, one per code *)

PercentRule(code, refKey, percent, minPrice) ==
    [code |-> code, type |-> "percent", reference |-> refKey, percent |-> percent,
     minPrice |-> minPrice, threshold |-> 0, activated |-> FALSE]
BuyNGetOneRule(code, refKey, threshold) ==
    [code |-> code, type |-> "buyNGetOne", reference |-> refKey, percent |-> 0,
     minPrice |-> undefined, threshold |-> threshold, activated |-> FALSE]

\* promotions.has(code)
HasCode(registry, code) == \E i \in 1..Len(registry) : registry[i].code = code
\* index of the rule promotions.get(code) returns
IndexOf(registry, code) == CHOOSE i \in 1..Len(registry) : registry[i].code = code

\* Mutant: the code is looked up before the reference.
registerPromotionChecksCodeFirst(code, reference, percent, minPrice) ==
    IF InvalidPromotionCode(code) THEN Throw("InvalidPromotionCode", items, promotions)
    ELSE IF InvalidReference(reference) THEN Throw("InvalidReference", items, promotions)
    ELSE IF InvalidPercent(percent) THEN Throw("InvalidPercent", items, promotions)
    ELSE IF minPrice # undefined /\ InvalidPrice(minPrice)
    THEN Throw("InvalidPrice", items, promotions)
    ELSE LET promoCode == normalizePromotionCode(code)
             refKey == normalizeReference(reference)
         IN IF HasCode(promotions, promoCode)
            THEN Throw("PromotionCodeConflict", items, promotions)
            ELSE IF Has(items, refKey)
            THEN Throw("PromotionReferenceConflict", items, promotions)
            ELSE Return(items,
                        Append(promotions, PercentRule(promoCode, refKey, percent, minPrice)),
                        FALSE)

registerPromotion(code, reference, percent, minPrice) ==
    IF InvalidPromotionCode(code) THEN Throw("InvalidPromotionCode", items, promotions)
    ELSE IF InvalidReference(reference) THEN Throw("InvalidReference", items, promotions)
    ELSE IF InvalidPercent(percent) THEN Throw("InvalidPercent", items, promotions)
    ELSE IF minPrice # undefined /\ InvalidPrice(minPrice)
    THEN Throw("InvalidPrice", items, promotions)
    ELSE LET promoCode == normalizePromotionCode(code)
             refKey == normalizeReference(reference)
         IN IF Has(items, refKey) THEN Throw("PromotionReferenceConflict", items, promotions)
            ELSE IF HasCode(promotions, promoCode)
            THEN Throw("PromotionCodeConflict", items, promotions)
            ELSE Return(items,
                        Append(promotions, PercentRule(promoCode, refKey, percent, minPrice)),
                        FALSE)

registerBuyNGetOnePromotion(code, reference, threshold) ==
    IF InvalidPromotionCode(code) THEN Throw("InvalidPromotionCode", items, promotions)
    ELSE IF InvalidReference(reference) THEN Throw("InvalidReference", items, promotions)
    ELSE IF InvalidThreshold(threshold) THEN Throw("InvalidThreshold", items, promotions)
    ELSE LET promoCode == normalizePromotionCode(code)
             refKey == normalizeReference(reference)
         IN IF Has(items, refKey) THEN Throw("PromotionReferenceConflict", items, promotions)
            ELSE IF HasCode(promotions, promoCode)
            THEN Throw("PromotionCodeConflict", items, promotions)
            ELSE Return(items,
                        Append(promotions, BuyNGetOneRule(promoCode, refKey, threshold)),
                        FALSE)

\* Mutant: an active promotion of any reference blocks.
hasActivePromotionForAnyReference(reference, excludeCode) ==
    \E i \in 1..Len(promotions) :
        /\ promotions[i].code # excludeCode
        /\ promotions[i].activated

\* Mutant: only an active promotion of the same kind as excludeCode's blocks.
hasActivePromotionOfSameKind(reference, excludeCode) ==
    \E i \in 1..Len(promotions) :
        /\ promotions[i].code # excludeCode
        /\ promotions[i].reference = reference
        /\ promotions[i].activated
        /\ promotions[i].type = promotions[IndexOf(promotions, excludeCode)].type

\* Checks whether another active promotion already targets the same reference.
hasActivePromotionForReference(reference, excludeCode) ==
    \E i \in 1..Len(promotions) :
        /\ promotions[i].code # excludeCode
        /\ promotions[i].reference = reference
        /\ promotions[i].activated

\* Mutant: a blank code is treated as an unknown code.
activatePromotionBlankIsUnknown(code) ==
    LET promoCode == normalizePromotionCode(code)
    IN IF ~HasCode(promotions, promoCode) THEN Return(items, promotions, FALSE)
       ELSE LET i == IndexOf(promotions, promoCode)
                promotion == promotions[i]
            IN IF promotion.activated THEN Return(items, promotions, TRUE)
               ELSE IF hasActivePromotionForReference(promotion.reference, promoCode)
               THEN Return(items, promotions, FALSE)
               ELSE Return(items, [promotions EXCEPT ![i].activated = TRUE], TRUE)

\* Mutant: a promotion is activated only once its reference is in the cart.
activatePromotionNeedsStock(code) ==
    IF InvalidPromotionCode(code) THEN Throw("InvalidPromotionCode", items, promotions)
    ELSE LET promoCode == normalizePromotionCode(code)
         IN IF ~HasCode(promotions, promoCode) THEN Return(items, promotions, FALSE)
            ELSE LET i == IndexOf(promotions, promoCode)
                     promotion == promotions[i]
                 IN IF promotion.activated THEN Return(items, promotions, TRUE)
                    ELSE IF ~Has(items, promotion.reference)
                    THEN Return(items, promotions, FALSE)
                    ELSE IF hasActivePromotionForReference(promotion.reference, promoCode)
                    THEN Return(items, promotions, FALSE)
                    ELSE Return(items,
                                [promotions EXCEPT ![i].activated = TRUE],
                                TRUE)

\* Mutant: activating an active promotion switches it off.
activatePromotionToggles(code) ==
    IF InvalidPromotionCode(code) THEN Throw("InvalidPromotionCode", items, promotions)
    ELSE LET promoCode == normalizePromotionCode(code)
         IN IF ~HasCode(promotions, promoCode) THEN Return(items, promotions, FALSE)
            ELSE LET i == IndexOf(promotions, promoCode)
                     promotion == promotions[i]
                 IN IF promotion.activated
                    THEN Return(items, [promotions EXCEPT ![i].activated = FALSE], TRUE)
                    ELSE IF hasActivePromotionForReference(promotion.reference, promoCode)
                    THEN Return(items, promotions, FALSE)
                    ELSE Return(items,
                                [promotions EXCEPT ![i].activated = TRUE],
                                TRUE)

activatePromotion(code) ==
    IF InvalidPromotionCode(code) THEN Throw("InvalidPromotionCode", items, promotions)
    ELSE LET promoCode == normalizePromotionCode(code)
         IN IF ~HasCode(promotions, promoCode) THEN Return(items, promotions, FALSE)
            ELSE LET i == IndexOf(promotions, promoCode)
                     promotion == promotions[i]
                 IN IF promotion.activated THEN Return(items, promotions, TRUE)
                    ELSE IF hasActivePromotionForReference(promotion.reference, promoCode)
                    THEN Return(items, promotions, FALSE)
                    ELSE Return(items,
                                [promotions EXCEPT ![i].activated = TRUE],
                                TRUE)

----------------------------------------------------------------------------
(* Discount computation *)

\* Mutant: the activation flag is not looked at.
findRegisteredPercentPromotion(reference, price) ==
    LET applicable == { i \in 1..Len(promotions) :
                          /\ promotions[i].type = "percent"
                          /\ promotions[i].reference = reference
                          /\ ~(promotions[i].minPrice # undefined
                               /\ Lt(price, promotions[i].minPrice)) }
    IN IF applicable = {} THEN 0
       ELSE CHOOSE i \in applicable : \A j \in applicable : i <= j

\* Mutant: the minimum price of the promotion is not looked at.
findApplicablePercentPromotionIgnoresMinPrice(reference, price) ==
    LET applicable == { i \in 1..Len(promotions) :
                          /\ promotions[i].type = "percent"
                          /\ promotions[i].reference = reference
                          /\ promotions[i].activated }
    IN IF applicable = {} THEN 0
       ELSE CHOOSE i \in applicable : \A j \in applicable : i <= j

\* Index in the registry of the first active percent promotion applicable to
\* the reference/price pair, 0 when there is none.
findApplicablePercentPromotion(reference, price) ==
    LET applicable == { i \in 1..Len(promotions) :
                          /\ promotions[i].type = "percent"
                          /\ promotions[i].reference = reference
                          /\ promotions[i].activated
                          /\ ~(promotions[i].minPrice # undefined
                               /\ Lt(price, promotions[i].minPrice)) }
    IN IF applicable = {} THEN 0
       ELSE CHOOSE i \in applicable : \A j \in applicable : i <= j

\* Mutant: a registered buy-N-get-one promotion counts without activation.
findRegisteredBuyNPromotion(reference) ==
    LET registered == { i \in 1..Len(promotions) :
                          /\ promotions[i].type = "buyNGetOne"
                          /\ promotions[i].reference = reference }
    IN IF registered = {} THEN 0
       ELSE CHOOSE i \in registered : \A j \in registered : i <= j

\* Index of the first active buy-N-get-one promotion of the reference, or 0.
findActiveBuyNPromotion(reference) ==
    LET active == { i \in 1..Len(promotions) :
                      /\ promotions[i].type = "buyNGetOne"
                      /\ promotions[i].activated
                      /\ promotions[i].reference = reference }
    IN IF active = {} THEN 0
       ELSE CHOOSE i \in active : \A j \in active : i <= j

\* Unit price charged, in hundredths: price * (1 - percent / 100).
getDiscountedPrice(reference, price) ==
    LET i == findApplicablePercentPromotion(reference, price)
    IN IF i = 0 THEN Times(price, 100)
       ELSE Times(price, 100 - promotions[i].percent)

\* Mutant: the cheapest entry is given all the free units, whatever it holds.
RECURSIVE allocateAllToCheapest(_, _, _, _)
allocateAllToCheapest(bucket, pricesAsc, freebies, allocation) ==
    IF pricesAsc = << >> \/ freebies <= 0 THEN allocation
    ELSE LET price == Head(pricesAsc)
             available == IF Has(bucket, price) THEN bucket[price] ELSE 0
         IN IF available <= 0
            THEN allocateAllToCheapest(bucket, Tail(pricesAsc), freebies, allocation)
            ELSE allocateAllToCheapest(bucket, Tail(pricesAsc), 0,
                                       MapSet(allocation, price, freebies))

\* The allocation loop of buildFreebieAllocation over the ascending prices.
RECURSIVE allocate(_, _, _, _)
allocate(bucket, pricesAsc, freebies, allocation) ==
    IF pricesAsc = << >> \/ freebies <= 0 THEN allocation
    ELSE LET price == Head(pricesAsc)
             available == IF Has(bucket, price) THEN bucket[price] ELSE 0
         IN IF available <= 0 THEN allocate(bucket, Tail(pricesAsc), freebies, allocation)
            ELSE LET used == IF available <= freebies THEN available ELSE freebies
                 IN allocate(bucket, Tail(pricesAsc), freebies - used,
                             MapSet(allocation, price, used))

\* Mutant: a block is threshold units long, not threshold + 1.
buildFreebieAllocationBlockIsThreshold(reference, bucket) ==
    LET i == findActiveBuyNPromotion(reference)
    IN IF i = 0 THEN EmptyMap
       ELSE LET block == promotions[i].threshold
            IN IF block <= 0 THEN EmptyMap
               ELSE LET totalUnits == sumQuantities(bucket)
                        freebies == totalUnits \div block
                    IN IF freebies <= 0 THEN EmptyMap
                       ELSE allocate(bucket, sortPrices(bucket, "asc"), freebies, EmptyMap)

\* Per-price map of the units that become free for the reference.
buildFreebieAllocation(reference, bucket) ==
    LET i == findActiveBuyNPromotion(reference)
    IN IF i = 0 THEN EmptyMap
       ELSE LET block == promotions[i].threshold + 1
            IN IF block <= 0 THEN EmptyMap
               ELSE LET totalUnits == sumQuantities(bucket)
                        freebies == totalUnits \div block
                    IN IF freebies <= 0 THEN EmptyMap
                       ELSE allocate(bucket, sortPrices(bucket, "asc"), freebies, EmptyMap)

Max(a, b) == IF a >= b THEN a ELSE b

\* Amount of one price entry given the allocation of the free units.
EntryAmount(reference, price, quantity, freebies) ==
    LET freeUnits == IF Has(freebies, price) THEN freebies[price] ELSE 0
        payable == Max(0, quantity - freeUnits)
    IN Times(getDiscountedPrice(reference, price), payable)

RECURSIVE AmountOver(_, _, _, _)
AmountOver(reference, bucket, freebies, prices) ==
    IF prices = {} THEN 0
    ELSE LET p == CHOOSE x \in prices : TRUE
         IN Plus(EntryAmount(reference, p, bucket[p], freebies),
                 AmountOver(reference, bucket, freebies, prices \ {p}))

calculateBucketAmount(reference, bucket) ==
    AmountOver(reference, bucket, buildFreebieAllocation(reference, bucket), DOMAIN bucket)

----------------------------------------------------------------------------
(* Queries *)

RECURSIVE TotalOver(_)
TotalOver(refs) ==
    IF refs = {} THEN 0
    ELSE LET r == CHOOSE x \in refs : TRUE
         IN Plus(calculateBucketAmount(r, items[r]), TotalOver(refs \ {r}))

getTotalAmount == Return(items, promotions, TotalOver(DOMAIN items))

\* String order of the references (a shorter prefix first, then by character).
RECURSIVE StrLeq(_, _)
StrLeq(a, b) ==
    IF a = << >> THEN TRUE
    ELSE IF b = << >> THEN FALSE
    ELSE IF Head(a) = Head(b) THEN StrLeq(Tail(a), Tail(b))
    ELSE CharLt(Head(a), Head(b))
RECURSIVE SortStrings(_)
SortStrings(keys) ==
    IF keys = {} THEN << >>
    ELSE LET m == CHOOSE x \in keys : \A y \in keys : StrLeq(x, y)
         IN <<m>> \o SortStrings(keys \ {m})

getReferences == Return(items, promotions, SortStrings(DOMAIN items))

\* Mutant: the prices are listed from the most expensive down.
getUnitPricesDescending(reference) ==
    IF InvalidReference(reference) THEN Throw("InvalidReference", items, promotions)
    ELSE LET refKey == normalizeReference(reference)
         IN IF ~Has(items, refKey) THEN Throw("ReferenceNotFound", items, promotions)
            ELSE Return(items, promotions, sortPrices(items[refKey], "desc"))

getUnitPrices(reference) ==
    IF InvalidReference(reference) THEN Throw("InvalidReference", items, promotions)
    ELSE LET refKey == normalizeReference(reference)
         IN IF ~Has(items, refKey) THEN Throw("ReferenceNotFound", items, promotions)
            ELSE Return(items, promotions, sortPrices(items[refKey], "asc"))

\* getQuantityForPrice throws the error kind named here, "none" when it returns
getQuantityForPriceError(bucket, price) ==
    IF InvalidPrice(price) THEN "InvalidPrice"
    ELSE IF ~Has(bucket, price) THEN "PriceNotFound"
    ELSE "none"

\* Mutant: the price is validated before the reference is looked up.
getQuantityValidatesPriceFirst(reference, price) ==
    IF InvalidReference(reference) THEN Throw("InvalidReference", items, promotions)
    ELSE IF price # undefined /\ InvalidPrice(price)
    THEN Throw("InvalidPrice", items, promotions)
    ELSE LET refKey == normalizeReference(reference)
         IN IF ~Has(items, refKey) THEN Throw("ReferenceNotFound", items, promotions)
            ELSE LET bucket == items[refKey]
                 IN IF price = undefined
                    THEN Return(items, promotions, sumQuantities(bucket))
                    ELSE IF ~Has(bucket, price)
                    THEN Throw("PriceNotFound", items, promotions)
                    ELSE Return(items, promotions, bucket[price])

getQuantity(reference, price) ==
    IF InvalidReference(reference) THEN Throw("InvalidReference", items, promotions)
    ELSE LET refKey == normalizeReference(reference)
         IN IF ~Has(items, refKey) THEN Throw("ReferenceNotFound", items, promotions)
            ELSE LET bucket == items[refKey]
                 IN IF price = undefined
                    THEN Return(items, promotions, sumQuantities(bucket))
                    ELSE IF getQuantityForPriceError(bucket, price) # "none"
                    THEN Throw(getQuantityForPriceError(bucket, price), items, promotions)
                    ELSE Return(items, promotions, bucket[price])

\* Mutant: the amount of the entry without any promotion.
getAmountWithoutPromotions(reference, price) ==
    IF InvalidReference(reference) THEN Throw("InvalidReference", items, promotions)
    ELSE LET refKey == normalizeReference(reference)
         IN IF ~Has(items, refKey) THEN Throw("ReferenceNotFound", items, promotions)
            ELSE LET bucket == items[refKey]
                 IN IF getQuantityForPriceError(bucket, price) # "none"
                    THEN Throw(getQuantityForPriceError(bucket, price), items, promotions)
                    ELSE Return(items, promotions, Times(Times(price, 100), bucket[price]))

getAmount(reference, price) ==
    IF InvalidReference(reference) THEN Throw("InvalidReference", items, promotions)
    ELSE LET refKey == normalizeReference(reference)
         IN IF ~Has(items, refKey) THEN Throw("ReferenceNotFound", items, promotions)
            ELSE LET bucket == items[refKey]
                 IN IF getQuantityForPriceError(bucket, price) # "none"
                    THEN Throw(getQuantityForPriceError(bucket, price), items, promotions)
                    ELSE Return(items, promotions,
                                EntryAmount(reference, price, bucket[price],
                                            buildFreebieAllocation(reference, bucket)))

----------------------------------------------------------------------------
(* The promotion-free Cart (the earlier variant of the class): its methods
   as operators on its item map its, with outcomes [err, ret, items].
   normalizeReference, assertPrice, assertQuantity, the drain loop and the
   sorts are the same code as in the promotion-aware class. *)

plainThrow(kind, its) == [err |-> kind, ret |-> FALSE, items |-> its]
plainReturn(its, value) == [err |-> "none", ret |-> value, items |-> its]

plainAdd(its, reference, price, quantity) ==
    IF InvalidReference(reference) THEN plainThrow("InvalidReference", its)
    ELSE IF InvalidPrice(price) THEN plainThrow("InvalidPrice", its)
    ELSE IF InvalidQuantity(quantity) THEN plainThrow("InvalidQuantity", its)
    ELSE LET refKey == normalizeReference(reference)
             bucket == IF Has(its, refKey) THEN its[refKey] ELSE EmptyMap
             existingQuantity == IF Has(bucket, price) THEN bucket[price] ELSE 0
         IN plainReturn(MapSet(its, refKey, MapSet(bucket, price, existingQuantity + quantity)),
                        FALSE)

plainRemove(its, reference, quantity) ==
    IF InvalidReference(reference) THEN plainThrow("InvalidReference", its)
    ELSE LET refKey == normalizeReference(reference)
         IN IF ~Has(its, refKey) THEN plainThrow("ReferenceNotFound", its)
            ELSE IF InvalidQuantity(quantity) THEN plainThrow("InvalidQuantity", its)
            ELSE LET bucket == its[refKey]
                     totalQuantity == SumOver(bucket, DOMAIN bucket)
                 IN IF quantity > totalQuantity
                    THEN plainThrow("InsufficientQuantity", its)
                    ELSE LET pricesDesc == Reverse(SortAsc(DOMAIN bucket))
                             drained == drain(bucket, pricesDesc, quantity)
                         IN IF DOMAIN drained = {}
                            THEN plainReturn(MapDelete(its, refKey), FALSE)
                            ELSE plainReturn(MapSet(its, refKey, drained), FALSE)

\* price * quantity summed over a bucket, in hundredths
RECURSIVE plainBucketAmount(_, _)
plainBucketAmount(bucket, prices) ==
    IF prices = {} THEN 0
    ELSE LET p == CHOOSE x \in prices : TRUE
         IN Plus(Times(Times(p, 100), bucket[p]), plainBucketAmount(bucket, prices \ {p}))
RECURSIVE plainTotalOver(_, _)
plainTotalOver(its, refs) ==
    IF refs = {} THEN 0
    ELSE LET r == CHOOSE x \in refs : TRUE
         IN Plus(plainBucketAmount(its[r], DOMAIN its[r]), plainTotalOver(its, refs \ {r}))

plainGetTotalAmount(its) == plainReturn(its, plainTotalOver(its, DOMAIN its))

plainGetReferences(its) == plainReturn(its, SortStrings(DOMAIN its))

plainGetUnitPrices(its, reference) ==
    IF InvalidReference(reference) THEN plainThrow("InvalidReference", its)
    ELSE IF ~Has(its, normalizeReference(reference)) THEN plainThrow("ReferenceNotFound", its)
    ELSE plainReturn(its, SortAsc(DOMAIN its[normalizeReference(reference)]))

plainGetQuantity(its, reference, price) ==
    IF InvalidReference(reference) THEN plainThrow("InvalidReference", its)
    ELSE IF ~Has(its, normalizeReference(reference)) THEN plainThrow("ReferenceNotFound", its)
    ELSE LET bucket == its[normalizeReference(reference)]
         IN IF price = undefined THEN plainReturn(its, SumOver(bucket, DOMAIN bucket))
            ELSE IF InvalidPrice(price) THEN plainThrow("InvalidPrice", its)
            ELSE IF ~Has(bucket, price) THEN plainThrow("PriceNotFound", its)
            ELSE plainReturn(its, bucket[price])

plainGetAmount(its, reference, price) ==
    IF InvalidReference(reference) THEN plainThrow("InvalidReference", its)
    ELSE IF ~Has(its, normalizeReference(reference)) THEN plainThrow("ReferenceNotFound", its)
    ELSE LET bucket == its[normalizeReference(reference)]
         IN IF InvalidPrice(price) THEN plainThrow("InvalidPrice", its)
            ELSE IF ~Has(bucket, price) THEN plainThrow("PriceNotFound", its)
            ELSE plainReturn(its, Times(Times(price, 100), bucket[price]))

----------------------------------------------------------------------------
(* State machine *)

RECURSIVE UnitsIn(_, _)
UnitsIn(map, refs) ==
    IF refs = {} THEN 0
    ELSE LET r == CHOOSE x \in refs : TRUE
         IN sumQuantities(map[r]) + UnitsIn(map, refs \ {r})
Units(map) == UnitsIn(map, DOMAIN map)

\* History of the calls: ledger[R] is the sum of the quantities of the
\* successful add(R, _, q) minus the sum of those of the successful
\* remove(R, q) so far.
References == { normalizeReference(r) : r \in RawReferences } \ { << >> }
NoLedger == [R \in References |-> 0]
Credit(reference, quantity, o) ==
    IF o.err = "none"
    THEN [ledger EXCEPT ![normalizeReference(reference)] = @ + quantity]
    ELSE ledger
Debit(reference, quantity, o) ==
    IF o.err = "none"
    THEN [ledger EXCEPT ![normalizeReference(reference)] = @ - quantity]
    ELSE ledger

\* The remove calls in progress when remove is not run as one step (SpecRace);
\* none is when the operations run to completion one after the other.
NoCalls == << >>

Init ==
    /\ items = EmptyMap
    /\ promotions = << >>
    /\ ledger = NoLedger
    /\ calls = NoCalls

Add ==
    \E reference \in RawReferences, price \in PriceInputs, quantity \in QuantityInputs :
        /\ Units(add(reference, price, quantity).items) <= MaxUnits
        /\ items' = add(reference, price, quantity).items
        /\ promotions' = add(reference, price, quantity).promotions
        /\ ledger' = Credit(reference, quantity, add(reference, price, quantity))
        /\ UNCHANGED calls

Remove ==
    \E reference \in RawReferences, quantity \in QuantityInputs :
        /\ items' = remove(reference, quantity).items
        /\ promotions' = remove(reference, quantity).promotions
        /\ ledger' = Debit(reference, quantity, remove(reference, quantity))
        /\ UNCHANGED calls

RegisterPromotion ==
    \E code \in RawCodes, reference \in RawReferences, offer \in PercentOffers :
        /\ items' = registerPromotion(code, reference, offer[1], offer[2]).items
        /\ promotions' = registerPromotion(code, reference, offer[1], offer[2]).promotions
        /\ UNCHANGED <<ledger, calls>>

RegisterBuyNGetOnePromotion ==
    \E code \in RawCodes, reference \in RawReferences, threshold \in ThresholdInputs :
        /\ items' = registerBuyNGetOnePromotion(code, reference, threshold).items
        /\ promotions' = registerBuyNGetOnePromotion(code, reference, threshold).promotions
        /\ UNCHANGED <<ledger, calls>>

ActivatePromotion ==
    \E code \in RawCodes :
        /\ items' = activatePromotion(code).items
        /\ promotions' = activatePromotion(code).promotions
        /\ UNCHANGED <<ledger, calls>>

GetTotalAmount ==
    /\ items' = getTotalAmount.items
    /\ promotions' = getTotalAmount.promotions
    /\ UNCHANGED <<ledger, calls>>

GetReferences ==
    /\ items' = getReferences.items
    /\ promotions' = getReferences.promotions
    /\ UNCHANGED <<ledger, calls>>

GetUnitPrices ==
    \E reference \in RawReferences :
        /\ items' = getUnitPrices(reference).items
        /\ promotions' = getUnitPrices(reference).promotions
        /\ UNCHANGED <<ledger, calls>>

GetQuantity ==
    \E reference \in RawReferences, price \in PriceInputs \cup {undefined} :
        /\ items' = getQuantity(reference, price).items
        /\ promotions' = getQuantity(reference, price).promotions
        /\ UNCHANGED <<ledger, calls>>

GetAmount ==
    \E reference \in RawReferences, price \in PriceInputs :
        /\ items' = getAmount(reference, price).items
        /\ promotions' = getAmount(reference, price).promotions
        /\ UNCHANGED <<ledger, calls>>

Next ==
    \/ Add
    \/ Remove
    \/ RegisterPromotion
    \/ RegisterBuyNGetOnePromotion
    \/ ActivatePromotion
    \/ GetTotalAmount
    \/ GetReferences
    \/ GetUnitPrices
    \/ GetQuantity
    \/ GetAmount

Spec == Init /\ [][Next]_vars


----------------------------------------------------------------------------
(* The free-unit allocation on larger buckets: the cart after a              *)
(* registerBuyNGetOnePromotion on RefA and adds on RefA, for every bucket of *)
(* at most MaxBucketUnits units over AllocPrices and every threshold of      *)
(* AllocThresholds; the promotion is activated by ActivatePromotion.         *)

AllocPrices == { 10, 12, 15 }
AllocThresholds == { 2, 3 }
AllocBuckets ==
    { b \in UNION { [S -> 1..MaxBucketUnits] : S \in SUBSET AllocPrices \ {{}} } :
        sumQuantities(b) <= MaxBucketUnits }

InitAlloc ==
    /\ items \in { [r \in {RefA} |-> b] : b \in AllocBuckets }
    /\ promotions \in { <<BuyNGetOneRule(Code1, RefA, t)>> : t \in AllocThresholds }
    /\ ledger = [NoLedger EXCEPT ![RefA] = sumQuantities(items[RefA])]
    /\ calls = NoCalls

NextAlloc ==
    \/ Remove
    \/ ActivatePromotion
    \/ GetAmount
    \/ GetTotalAmount

SpecAlloc == InitAlloc /\ [][NextAlloc]_vars

----------------------------------------------------------------------------
(* Third specification: the cart without promotions under every kind of
   price and quantity argument of add *)

PriceArgs == { NaN, 0 - 10, 0, 10, Infinity }
QuantityArgs == QuantityInputs \cup { 0 - 2, Infinity }

AddAnyPrice ==
    \E reference \in RawReferences, price \in PriceArgs, quantity \in QuantityArgs :
        /\ \A r \in DOMAIN add(reference, price, quantity).items :
               sumQuantities(add(reference, price, quantity).items[r]) <= MaxBucketUnits
        /\ items' = add(reference, price, quantity).items
        /\ promotions' = add(reference, price, quantity).promotions
        /\ ledger' = Credit(reference, quantity, add(reference, price, quantity))
        /\ UNCHANGED calls

NextPrices ==
    \/ AddAnyPrice
    \/ Remove
    \/ GetTotalAmount
    \/ GetUnitPrices

SpecPrices == Init /\ [][NextPrices]_vars

----------------------------------------------------------------------------
(* Fourth specification: two callers run remove on the same reference, each
   call split into two steps: the checks up to the sufficiency test
   (cart.ts:36-42), then the sort, the drain loop and the deletion of the
   emptied bucket (cart.ts:44-69). *)

Callers == { 1, 2 }
RacePrices == { 10, 12 }
RaceBuckets == UNION { [S -> 1..2] : S \in SUBSET RacePrices \ {{}} }
RaceQuantities == { 1, 2, 3 }

Idle == [pc |-> "idle"]

\* Mutant: the sufficiency test lets one unit too many through.
removeCheckErrorOffByOne(reference, quantity) ==
    IF InvalidReference(reference) THEN "InvalidReference"
    ELSE IF ~Has(items, normalizeReference(reference)) THEN "ReferenceNotFound"
    ELSE IF InvalidQuantity(quantity) THEN "InvalidQuantity"
    ELSE IF quantity > sumQuantities(items[normalizeReference(reference)]) + 1
    THEN "InsufficientQuantity"
    ELSE "none"

\* The error the first half of remove throws, "none" when it goes on.
removeCheckError(reference, quantity) ==
    IF InvalidReference(reference) THEN "InvalidReference"
    ELSE IF ~Has(items, normalizeReference(reference)) THEN "ReferenceNotFound"
    ELSE IF InvalidQuantity(quantity) THEN "InvalidQuantity"
    ELSE IF quantity > sumQuantities(items[normalizeReference(reference)])
    THEN "InsufficientQuantity"
    ELSE "none"

InitRace ==
    /\ items \in { [r \in {RefA} |-> b] : b \in RaceBuckets }
    /\ promotions = << >>
    /\ ledger = [NoLedger EXCEPT ![RefA] = sumQuantities(items[RefA])]
    /\ calls = [c \in Callers |-> Idle]

\* First half of remove(RefA, quantity) by caller c. A call that goes on
\* remembers what remove run as one step would leave (expect).
RemoveCheck(c) ==
    /\ calls[c].pc = "idle"
    /\ \E quantity \in RaceQuantities :
           calls' = [calls EXCEPT ![c] =
                       IF removeCheckError(RefA, quantity) # "none"
                       THEN [pc |-> "failed", quantity |-> quantity,
                             err |-> removeCheckError(RefA, quantity)]
                       ELSE [pc |-> "checked", quantity |-> quantity,
                             disturbed |-> FALSE,
                             expect |-> remove(RefA, quantity).items]]
    /\ UNCHANGED <<items, promotions, ledger>>

\* Second half of the call of caller c. The bucket the call holds is the one
\* it resolved in its first half: the bucket of the reference, or, once
\* another call has emptied and deleted it, that emptied bucket. The calls
\* between whose halves this step falls are marked disturbed.
RemoveDrain(c) ==
    /\ calls[c].pc = "checked"
    /\ LET bucket == IF Has(items, RefA) THEN items[RefA] ELSE EmptyMap
           drained == drain(bucket, sortPrices(bucket, "desc"), calls[c].quantity)
           left == IF DOMAIN drained = {} THEN MapDelete(items, RefA)
                   ELSE MapSet(items, RefA, drained)
       IN /\ items' = left
          /\ calls' = [d \in Callers |->
                          IF d = c
                          THEN [pc |-> "done", quantity |-> calls[c].quantity,
                                disturbed |-> calls[c].disturbed,
                                expect |-> calls[c].expect,
                                taken |-> sumQuantities(bucket) - sumQuantities(drained),
                                left |-> left]
                          ELSE IF calls[d].pc = "checked"
                          THEN [calls[d] EXCEPT !.disturbed = TRUE]
                          ELSE calls[d]]
    /\ ledger' = [ledger EXCEPT ![RefA] = @ - calls[c].quantity]
    /\ UNCHANGED promotions

\* The caller takes the result of its call and may call again.
RemoveReturn(c) ==
    /\ calls[c].pc \in { "done", "failed" }
    /\ calls' = [calls EXCEPT ![c] = Idle]
    /\ UNCHANGED <<items, promotions, ledger>>

NextRace ==
    \/ \E c \in Callers : RemoveCheck(c)
    \/ \E c \in Callers : RemoveDrain(c)
    \/ \E c \in Callers : RemoveReturn(c)

SpecRace == InitRace /\ [][NextRace]_vars

----------------------------------------------------------------------------
(* Fifth specification: add and activatePromotion in any order on a cart
   whose promotions were registered first *)

OrderRegistries ==
    { <<PercentRule(Code1, RefA, 10, undefined)>>,
      <<PercentRule(Code1, RefA, 10, undefined), PercentRule(Code2, RefB, 20, 12)>>,
      <<PercentRule(Code1, RefA, 10, undefined), BuyNGetOneRule(Code2, RefA, 2)>>,
      <<BuyNGetOneRule(Code1, RefB, 2), PercentRule(Code2, RefB, 20, 12)>> }

InitOrder ==
    /\ items = EmptyMap
    /\ promotions \in OrderRegistries
    /\ ledger = NoLedger
    /\ calls = NoCalls

NextOrder ==
    \/ Add
    \/ ActivatePromotion
    \/ GetAmount
    \/ GetTotalAmount

SpecOrder == InitOrder /\ [][NextOrder]_vars

----------------------------------------------------------------------------
(* Vocabulary of the properties *)

\* The bucket of a key in an item map, empty when the key is absent
BucketOf(map, key) == IF Has(map, key) THEN map[key] ELSE EmptyMap
\* Indices of the registry
Rules == 1..Len(promotions)
\* The rule i is a percent promotion that applies at the price
AppliesAt(i, price) ==
    promotions[i].minPrice = undefined \/ price >= promotions[i].minPrice
\* Amount (in hundredths) of quantity units at the price under percent rule i alone
PercentAmount(i, price, quantity) ==
    IF AppliesAt(i, price) THEN price * (100 - promotions[i].percent) * quantity
    ELSE price * 100 * quantity
RECURSIVE PercentAmountOver(_, _, _)
PercentAmountOver(i, bucket, prices) ==
    IF prices = {} THEN 0
    ELSE LET p == CHOOSE x \in prices : TRUE
         IN PercentAmount(i, p, bucket[p]) + PercentAmountOver(i, bucket, prices \ {p})

----------------------------------------------------------------------------
(* C1 *)

\* C1: a percent promotion and a buy-N-get-one promotion registered on the
\* same reference can both be active: when one of them is active and the
\* other is not, activating the other returns true and marks it active.
C1_StackAcrossKinds ==
    \A i \in Rules, j \in Rules :
        ( /\ promotions[i].reference = promotions[j].reference
          /\ promotions[i].type # promotions[j].type
          /\ promotions[i].activated
          /\ ~promotions[j].activated )
        => LET o == activatePromotion(promotions[j].code)
           IN o.err = "none" /\ o.ret = TRUE /\ o.promotions[j].activated

----------------------------------------------------------------------------
(* C2 *)

\* C2 as stated: activatePromotion(code) never fails with an error, for every
\* string code, the empty and the whitespace-only ones included.
C2_ActivateNeverThrows ==
    \A code \in RawCodes : activatePromotion(code).err = "none"

\* C2 amended: activatePromotion(code) fails with InvalidPromotionCode, changing
\* nothing, exactly when the code is empty after trimming; for every other code
\* it returns a boolean: false when the trimmed code is unknown, or when it is
\* inactive and another active promotion targets its reference, true otherwise.
C2_ActivateThrowsOnlyOnBlankCode ==
    \A code \in RawCodes :
        LET o == activatePromotion(code)
            known == { i \in Rules : promotions[i].code = trim(code) }
            blocked == \E i \in known, j \in Rules :
                           /\ j # i
                           /\ ~promotions[i].activated
                           /\ promotions[j].activated
                           /\ promotions[j].reference = promotions[i].reference
        IN IF trim(code) = << >>
           THEN o.err = "InvalidPromotionCode" /\ o.items = items /\ o.promotions = promotions
           ELSE /\ o.err = "none"
                /\ o.ret \in BOOLEAN
                /\ o.ret = (known # {} /\ ~blocked)

\* A state where the three outcomes of activatePromotion all occur: a blank
\* code that throws, a code answered true and a code answered false because
\* an active promotion already targets its reference.
C2_Witness ==
    /\ \E code \in RawCodes : code # << >> /\ activatePromotion(code).err # "none"
    /\ \E code \in RawCodes :
           activatePromotion(code).err = "none" /\ activatePromotion(code).ret = TRUE
    /\ \E code \in RawCodes :
           /\ HasCode(promotions, trim(code))
           /\ activatePromotion(code).err = "none"
           /\ activatePromotion(code).ret = FALSE

----------------------------------------------------------------------------
(* C3 *)

----------------------------------------------------------------------------
(* C4 *)

\* C4: when two percent promotions are registered on the same reference and
\* the first one activated is active, activating the other returns false and
\* changes nothing, the other stays inactive, and the amounts of the reference
\* (getAmount of each entry, the reference's share of getTotalAmount) are
\* those of the active promotion's percent alone; at most one percent
\* promotion is active per reference.
C4_PercentExclusive ==
    \A i \in Rules, j \in Rules :
        ( /\ i # j
          /\ promotions[i].type = "percent"
          /\ promotions[j].type = "percent"
          /\ promotions[i].reference = promotions[j].reference
          /\ promotions[i].activated )
        => LET o == activatePromotion(promotions[j].code)
               R == promotions[i].reference
               bucket == BucketOf(items, R)
           IN /\ o.err = "none" /\ o.ret = FALSE
              /\ o.promotions = promotions
              /\ ~promotions[j].activated
              /\ \A p \in DOMAIN bucket :
                     /\ getAmount(R, p).err = "none"
                     /\ getAmount(R, p).ret = PercentAmount(i, p, bucket[p])
              /\ calculateBucketAmount(R, bucket)
                     = PercentAmountOver(i, bucket, DOMAIN bucket)
              /\ DOMAIN items = {R} =>
                     getTotalAmount.ret = PercentAmountOver(i, bucket, DOMAIN bucket)

\* A state where the reference of two percent promotions with different
\* percents holds units at a price both would discount, one promotion is
\* active and the other has been registered first.
C4_Witness ==
    \E i \in Rules, j \in Rules :
        /\ j < i
        /\ promotions[i].type = "percent" /\ promotions[j].type = "percent"
        /\ promotions[i].reference = promotions[j].reference
        /\ promotions[i].percent # promotions[j].percent
        /\ promotions[i].activated
        /\ DOMAIN items = {promotions[i].reference}
        /\ \E p \in DOMAIN items[promotions[i].reference] :
               AppliesAt(i, p) /\ AppliesAt(j, p)
        /\ activatePromotion(promotions[j].code).ret = FALSE

----------------------------------------------------------------------------
(* C5 *)

\* The price entries of the bucket `old` that the bucket `new` no longer has
\* or has with another quantity
Touched(old, new) == { p \in DOMAIN old : ~Has(new, p) \/ new[p] # old[p] }

\* C5: a successful remove(R,q) drains the bucket of R from the most expensive
\* price downwards: the total quantity of R drops by exactly q, no entry
\* appears or grows, an entry is reduced or deleted only if every entry with
\* a higher price has been deleted, at most one entry is left partially
\* consumed, and every entry cheaper than a touched one that is still there
\* keeps its quantity.
C5_RemoveDrainsMostExpensiveFirst ==
    \A reference \in RawReferences, quantity \in QuantityInputs :
        LET o == remove(reference, quantity)
            old == BucketOf(items, trim(reference))
            new == BucketOf(o.items, trim(reference))
        IN o.err = "none" =>
               /\ sumQuantities(new) = sumQuantities(old) - quantity
               /\ DOMAIN new \subseteq DOMAIN old
               /\ \A p \in DOMAIN new : new[p] <= old[p]
               /\ \A p \in Touched(old, new) :
                      \A higher \in DOMAIN old : higher > p => ~Has(new, higher)
               /\ Cardinality({ p \in DOMAIN new : new[p] < old[p] }) <= 1
               /\ \A p \in DOMAIN new : new[p] < old[p] =>
                      \A cheaper \in DOMAIN old :
                          cheaper < p => Has(new, cheaper) /\ new[cheaper] = old[cheaper]

\* A state where some remove deletes the most expensive entry of a reference
\* entirely and leaves a cheaper entry partially consumed.
C5_Witness ==
    \E reference \in RawReferences, quantity \in QuantityInputs :
        LET o == remove(reference, quantity)
            old == BucketOf(items, trim(reference))
            new == BucketOf(o.items, trim(reference))
        IN /\ o.err = "none"
           /\ \E p \in DOMAIN old, higher \in DOMAIN old :
                  /\ higher > p
                  /\ ~Has(new, higher)
                  /\ Has(new, p) /\ new[p] < old[p]

----------------------------------------------------------------------------
(* C6 *)

\* C6: remove(R,q) with q a positive integer greater than the total quantity
\* of R over all its price entries fails with InsufficientQuantity and leaves
\* every price entry of R, every other reference and the registry as before.
C6_InsufficientRemovesNothing ==
    \A reference \in RawReferences, quantity \in QuantityInputs :
        ( /\ Has(items, trim(reference))
          /\ ~InvalidQuantity(quantity)
          /\ quantity > sumQuantities(items[trim(reference)]) )
        => LET o == remove(reference, quantity)
           IN o.err = "InsufficientQuantity" /\ o.items = items /\ o.promotions = promotions

\* A state where a reference holds units at two prices and a remove asks for
\* one unit more than their sum, which no single entry could serve either.
C6_Witness ==
    \E reference \in RawReferences, quantity \in QuantityInputs :
        /\ Has(items, trim(reference))
        /\ Cardinality(DOMAIN items[trim(reference)]) = 2
        /\ quantity = sumQuantities(items[trim(reference)]) + 1
        /\ remove(reference, quantity).err = "InsufficientQuantity"

----------------------------------------------------------------------------
(* C7 *)

\* The outcome changes neither map
Unchanged(o) == o.items = items /\ o.promotions = promotions

\* C7: every call of add, remove, registerPromotion,
\* registerBuyNGetOnePromotion or a query that fails with an error leaves the
\* item map and the promotion registry unchanged (so a failed add leaves no
\* empty bucket behind and a failed registration stores no rule).
C7_FailedCallChangesNothing ==
    /\ \A reference \in RawReferences :
           /\ \A price \in PriceInputs, quantity \in QuantityInputs :
                  add(reference, price, quantity).err # "none"
                      => Unchanged(add(reference, price, quantity))
           /\ \A quantity \in QuantityInputs :
                  remove(reference, quantity).err # "none"
                      => Unchanged(remove(reference, quantity))
           /\ \A code \in RawCodes, offer \in PercentOffers :
                  registerPromotion(code, reference, offer[1], offer[2]).err # "none"
                      => Unchanged(registerPromotion(code, reference, offer[1], offer[2]))
           /\ \A code \in RawCodes, threshold \in ThresholdInputs :
                  registerBuyNGetOnePromotion(code, reference, threshold).err # "none"
                      => Unchanged(registerBuyNGetOnePromotion(code, reference, threshold))
           /\ getUnitPrices(reference).err # "none" => Unchanged(getUnitPrices(reference))
           /\ \A price \in PriceInputs \cup {undefined} :
                  getQuantity(reference, price).err # "none"
                      => Unchanged(getQuantity(reference, price))
           /\ \A price \in PriceInputs :
                  getAmount(reference, price).err # "none"
                      => Unchanged(getAmount(reference, price))
    /\ Unchanged(getTotalAmount)
    /\ Unchanged(getReferences)

\* A state where an add with a bad price or quantity fails on a reference
\* that is not in the cart, a registration fails on a reference that is in
\* the cart, and a registration fails on a code already registered.
C7_Witness ==
    /\ \E reference \in RawReferences, price \in PriceInputs, quantity \in QuantityInputs :
           /\ trim(reference) # << >>
           /\ ~Has(items, trim(reference))
           /\ add(reference, price, quantity).err \in {"InvalidPrice", "InvalidQuantity"}
    /\ \E code \in RawCodes, reference \in RawReferences, offer \in PercentOffers :
           registerPromotion(code, reference, offer[1], offer[2]).err
               = "PromotionReferenceConflict"
    /\ \E code \in RawCodes, reference \in RawReferences, threshold \in ThresholdInputs :
           registerBuyNGetOnePromotion(code, reference, threshold).err
               = "PromotionCodeConflict"

----------------------------------------------------------------------------
(* C8 *)

\* C8: in every reachable state every reference stored in the cart has a
\* non-empty bucket and every stored quantity is a positive integer.
C8_NoEmptyBucketNoZeroQuantity ==
    \A r \in DOMAIN items :
        /\ DOMAIN items[r] # {}
        /\ \A p \in DOMAIN items[r] : items[r][p] \in Nat \ {0}

\* A state where one remove consumes an entry exactly and leaves the
\* reference with its other entry, and another remove empties the reference.
C8_Witness ==
    \E reference \in RawReferences, q1 \in QuantityInputs, q2 \in QuantityInputs :
        /\ remove(reference, q1).err = "none"
        /\ remove(reference, q2).err = "none"
        /\ Cardinality(DOMAIN items[trim(reference)]) = 2
        /\ Cardinality(DOMAIN BucketOf(remove(reference, q1).items, trim(reference))) = 1
        /\ sumQuantities(BucketOf(remove(reference, q1).items, trim(reference)))
               = sumQuantities(items[trim(reference)]) - q1
        /\ \E p \in DOMAIN items[trim(reference)] : items[trim(reference)][p] = q1
        /\ ~Has(remove(reference, q2).items, trim(reference))

----------------------------------------------------------------------------
(* C9 *)

\* C9: a successful add(R,P,q) on a reference that already has an entry at
\* price P increases that entry by q and creates no second entry; at a price
\* not yet in the bucket it inserts an entry with quantity q; the other
\* entries of R are unchanged; and in every state getQuantity(R,P) reads the
\* stored quantity of the entry and getUnitPrices(R) lists each price of the
\* bucket exactly once.
C9_AddAccumulates ==
    /\ \A reference \in RawReferences, price \in PriceInputs, quantity \in QuantityInputs :
           LET o == add(reference, price, quantity)
               old == BucketOf(items, trim(reference))
               new == BucketOf(o.items, trim(reference))
           IN o.err = "none" =>
                  /\ DOMAIN new = DOMAIN old \cup {price}
                  /\ new[price] = (IF Has(old, price) THEN old[price] + quantity ELSE quantity)
                  /\ \A p \in DOMAIN old \ {price} : new[p] = old[p]
    /\ \A reference \in RawReferences :
           Has(items, trim(reference)) =>
               LET bucket == items[trim(reference)]
                   listed == getUnitPrices(reference).ret
               IN /\ getUnitPrices(reference).err = "none"
                  /\ Len(listed) = Cardinality(DOMAIN bucket)
                  /\ { listed[k] : k \in 1..Len(listed) } = DOMAIN bucket
                  /\ \A p \in DOMAIN bucket :
                         /\ getQuantity(reference, p).err = "none"
                         /\ getQuantity(reference, p).ret = bucket[p]

\* A state where a reference holds units at two prices and an add at one of
\* them is accepted.
C9_Witness ==
    \E reference \in RawReferences, price \in PriceInputs, quantity \in QuantityInputs :
        /\ Has(items, trim(reference))
        /\ Has(items[trim(reference)], price)
        /\ Cardinality(DOMAIN items[trim(reference)]) = 2
        /\ add(reference, price, quantity).err = "none"
        /\ Units(add(reference, price, quantity).items) <= MaxUnits

----------------------------------------------------------------------------
(* C10 *)

\* Every call on the reference that needs its bucket fails with ReferenceNotFound
FailsReferenceNotFound(reference) ==
    /\ getUnitPrices(reference).err = "ReferenceNotFound"
    /\ \A price \in PriceInputs \cup {undefined} :
           getQuantity(reference, price).err = "ReferenceNotFound"
    /\ \A price \in PriceInputs : getAmount(reference, price).err = "ReferenceNotFound"
    /\ \A quantity \in QuantityInputs : remove(reference, quantity).err = "ReferenceNotFound"

\* C10: a successful remove(R,q) that takes the whole remaining quantity of R
\* deletes the reference from the item map, and while a reference is absent
\* from the item map getReferences() does not list it and getQuantity,
\* getUnitPrices, getAmount and remove on it fail with ReferenceNotFound.
C10_RemoveAllDeletesReference ==
    /\ \A reference \in RawReferences, quantity \in QuantityInputs :
           ( /\ remove(reference, quantity).err = "none"
             /\ quantity = sumQuantities(items[trim(reference)]) )
           => ~Has(remove(reference, quantity).items, trim(reference))
    /\ \A reference \in RawReferences :
           ( trim(reference) # << >> /\ ~Has(items, trim(reference)) )
           => /\ FailsReferenceNotFound(reference)
              /\ \A k \in 1..Len(getReferences.ret) : getReferences.ret[k] # trim(reference)

\* A state where a reference holds units at two prices, another reference is
\* in the cart too, and a remove of the first takes all its units.
C10_Witness ==
    \E reference \in RawReferences, quantity \in QuantityInputs :
        /\ Has(items, trim(reference))
        /\ Cardinality(DOMAIN items[trim(reference)]) = 2
        /\ Cardinality(DOMAIN items) = 2
        /\ quantity = sumQuantities(items[trim(reference)])
        /\ remove(reference, quantity).err = "none"

----------------------------------------------------------------------------
(* C11 *)

\* Sum of the values of a map of numbers
RECURSIVE SumValues(_, _)
SumValues(map, keys) ==
    IF keys = {} THEN 0
    ELSE LET k == CHOOSE x \in keys : TRUE
         IN map[k] + SumValues(map, keys \ {k})
\* Free units the allocation gives to the price
FreeAt(allocation, price) == IF Has(allocation, price) THEN allocation[price] ELSE 0
\* The rule i is an active buy-N-get-one promotion of a reference in the cart
ActiveBuyN(i) ==
    /\ promotions[i].type = "buyNGetOne"
    /\ promotions[i].activated
    /\ Has(items, promotions[i].reference)

\* C11: for a reference with an active buy-N-get-one promotion of threshold T
\* and total quantity Q, the free units allocated over the price entries sum
\* to Q div (T+1), only entries of the bucket get free units and none gets
\* more than its quantity, and the payable units sum to Q - Q div (T+1)
\* (threshold 2: Q = 1 gives 0 free, 3 gives 1, 5 gives 1, 7 gives 2).
C11_FreeUnitsPerBlock ==
    \A i \in Rules :
        ActiveBuyN(i) =>
            LET R == promotions[i].reference
                bucket == items[R]
                Q == sumQuantities(bucket)
                T == promotions[i].threshold
                allocation == buildFreebieAllocation(R, bucket)
                free == SumValues(allocation, DOMAIN allocation)
                payable == [p \in DOMAIN bucket |-> Max(0, bucket[p] - FreeAt(allocation, p))]
            IN /\ DOMAIN allocation \subseteq DOMAIN bucket
               /\ \A p \in DOMAIN allocation : allocation[p] >= 1 /\ allocation[p] <= bucket[p]
               /\ free = Q \div (T + 1)
               /\ SumValues(payable, DOMAIN payable) = Q - (Q \div (T + 1))
               /\ (T = 2 /\ Q \in {1, 2}) => free = 0
               /\ (T = 2 /\ Q \in {3, 5}) => free = 1
               /\ (T = 2 /\ Q = 7) => free = 2

\* A state where a reference holds 7 units over several prices under an
\* active promotion of threshold 2, so that two units are free.
C11_Witness ==
    \E i \in Rules :
        /\ ActiveBuyN(i)
        /\ promotions[i].threshold = 2
        /\ sumQuantities(items[promotions[i].reference]) = 7
        /\ Cardinality(DOMAIN items[promotions[i].reference]) >= 2
        /\ LET allocation == buildFreebieAllocation(promotions[i].reference,
                                                    items[promotions[i].reference])
           IN SumValues(allocation, DOMAIN allocation) = 2

----------------------------------------------------------------------------
(* C12 *)

\* C12: the free units of an active buy-N-get-one promotion are taken from
\* the cheapest price entries first: an entry receives a free unit only if
\* every cheaper entry of the reference is entirely free, and getAmount
\* charges each entry its paying units at full price (a bucket of 1 unit at
\* 10 and 2 units at 12 with threshold 2: getAmount at 10 is 0, at 12 is 24).
C12_CheapestUnitsAreFree ==
    \A i \in Rules :
        ActiveBuyN(i) =>
            LET R == promotions[i].reference
                bucket == items[R]
                allocation == buildFreebieAllocation(R, bucket)
            IN /\ \A p \in DOMAIN bucket :
                      FreeAt(allocation, p) >= 1 =>
                          \A cheaper \in DOMAIN bucket :
                              cheaper < p => FreeAt(allocation, cheaper) = bucket[cheaper]
               /\ \A p \in DOMAIN bucket \cap PriceInputs :
                      /\ getAmount(R, p).err = "none"
                      /\ getAmount(R, p).ret = p * 100 * (bucket[p] - FreeAt(allocation, p))
               /\ ( /\ promotions[i].threshold = 2
                    /\ DOMAIN bucket = {10, 12}
                    /\ bucket[10] = 1 /\ bucket[12] = 2 )
                  => getAmount(R, 10).ret = 0 /\ getAmount(R, 12).ret = 2400

\* A state where the cheapest entry is entirely free, the next one has a free
\* unit and a paying unit, and the most expensive one has no free unit.
C12_Witness ==
    \E i \in Rules :
        /\ ActiveBuyN(i)
        /\ LET bucket == items[promotions[i].reference]
               allocation == buildFreebieAllocation(promotions[i].reference, bucket)
           IN /\ DOMAIN bucket = {10, 12, 15}
              /\ FreeAt(allocation, 10) = bucket[10]
              /\ FreeAt(allocation, 12) >= 1 /\ FreeAt(allocation, 12) < bucket[12]
              /\ FreeAt(allocation, 15) = 0
              /\ getAmount(promotions[i].reference, 10).ret = 0
----------------------------------------------------------------------------
(* C13 *)

\* The active percent promotions of a reference
ActivePercent(R) ==
    { i \in Rules : /\ promotions[i].type = "percent"
                    /\ promotions[i].reference = R
                    /\ promotions[i].activated }

\* C13: for every entry (R, price) of the cart, when a percent promotion on
\* R is active and its minPrice is unset or at most the price, the unit price
\* charged is price * (1 - percent / 100); otherwise (no active percent
\* promotion on R, or the price is below the minPrice of the active one) the
\* full price is charged; getAmount charges that unit price for the payable
\* units of the entry.
C13_PercentAppliesFromMinPrice ==
    \A R \in DOMAIN items : \A p \in DOMAIN items[R] :
        LET bucket == items[R]
            payable == bucket[p] - FreeAt(buildFreebieAllocation(R, bucket), p)
            applying == { i \in ActivePercent(R) : AppliesAt(i, p) }
        IN /\ \A i \in applying :
                  /\ getDiscountedPrice(R, p) = p * (100 - promotions[i].percent)
                  /\ getAmount(R, p).ret = p * (100 - promotions[i].percent) * payable
           /\ applying = {} =>
                  /\ getDiscountedPrice(R, p) = p * 100
                  /\ getAmount(R, p).ret = p * 100 * payable
           /\ \A i \in ActivePercent(R) :
                  ( promotions[i].minPrice # undefined /\ p < promotions[i].minPrice )
                  => getAmount(R, p).ret = p * 100 * payable

\* A state where a reference with an active percent promotion that has a
\* minimum price holds units below that price, charged in full, and units at
\* that price, discounted.
C13_Witness ==
    \E R \in DOMAIN items : \E i \in ActivePercent(R) :
        \E p \in DOMAIN items[R], q \in DOMAIN items[R] :
            /\ promotions[i].minPrice # undefined
            /\ p < promotions[i].minPrice
            /\ q >= promotions[i].minPrice
            /\ getAmount(R, p).ret = p * 100 * items[R][p]
            /\ getAmount(R, q).ret = q * (100 - promotions[i].percent) * items[R][q]

----------------------------------------------------------------------------
(* C14 *)

\* The entries of the cart, as (reference, price) pairs
Entries == { e \in (DOMAIN items) \X PriceInputs : Has(items[e[1]], e[2]) }
\* Sum of what getAmount returns over a set of entries
RECURSIVE SumOfGetAmount(_)
SumOfGetAmount(entries) ==
    IF entries = {} THEN 0
    ELSE LET e == CHOOSE x \in entries : TRUE
         IN getAmount(e[1], e[2]).ret + SumOfGetAmount(entries \ {e})
\* Sum of price times quantity (in hundredths) over a set of entries
RECURSIVE SumOfFullPrice(_)
SumOfFullPrice(entries) ==
    IF entries = {} THEN 0
    ELSE LET e == CHOOSE x \in entries : TRUE
         IN e[2] * 100 * items[e[1]][e[2]] + SumOfFullPrice(entries \ {e})

\* C14: in every reachable state getTotalAmount() succeeds, changes nothing
\* and returns the sum of getAmount(R, P) over every reference R of the cart
\* and every price P of its bucket, each of which succeeds; it returns 0 for
\* an empty cart.
C14_TotalIsSumOfAmounts ==
    /\ getTotalAmount.err = "none"
    /\ Unchanged(getTotalAmount)
    /\ \A R \in DOMAIN items : DOMAIN items[R] \subseteq PriceInputs
    /\ \A e \in Entries : getAmount(e[1], e[2]).err = "none"
    /\ getTotalAmount.ret = SumOfGetAmount(Entries)
    /\ items = EmptyMap => getTotalAmount.ret = 0

\* A state where two references hold units, a promotion lowers the amount
\* of one of them, and the total is the sum of the entries' amounts.
C14_Witness ==
    /\ Cardinality(DOMAIN items) = 2
    /\ Cardinality(Entries) = 3
    /\ getTotalAmount.ret = SumOfGetAmount(Entries)
    /\ getTotalAmount.ret > 0
    /\ getTotalAmount.ret < SumOfFullPrice(Entries)

----------------------------------------------------------------------------
(* C15 *)

\* The arguments of registerPromotion pass its validations
ValidPercentArgs(code, reference, percent, minPrice) ==
    /\ ~InvalidPromotionCode(code)
    /\ ~InvalidReference(reference)
    /\ ~InvalidPercent(percent)
    /\ minPrice = undefined \/ ~InvalidPrice(minPrice)
\* The arguments of registerBuyNGetOnePromotion pass its validations
ValidBuyNArgs(code, reference, threshold) ==
    /\ ~InvalidPromotionCode(code)
    /\ ~InvalidReference(reference)
    /\ ~InvalidThreshold(threshold)
\* The two conflict errors of a registration
ConflictErrors == { "PromotionReferenceConflict", "PromotionCodeConflict" }

\* What a registration outcome o must be for a code and a reference whose
\* other arguments are valid or not: the reference conflict whenever the
\* reference has a bucket, the code conflict whenever the code is registered
\* and the reference has no bucket, success (one rule appended, inactive)
\* when neither; a validation error, never a conflict, for invalid arguments.
RegistrationOutcome(o, valid, code, reference) ==
    LET promoCode == normalizePromotionCode(code)
        refKey == normalizeReference(reference)
    IN /\ ~valid => o.err \notin ConflictErrors \cup {"none"}
       /\ (valid /\ Has(items, refKey)) => o.err = "PromotionReferenceConflict"
       /\ (valid /\ ~Has(items, refKey) /\ HasCode(promotions, promoCode))
              => o.err = "PromotionCodeConflict"
       /\ (valid /\ ~Has(items, refKey) /\ ~HasCode(promotions, promoCode))
              => /\ o.err = "none"
                 /\ Len(o.promotions) = Len(promotions) + 1
                 /\ SubSeq(o.promotions, 1, Len(promotions)) = promotions
                 /\ o.promotions[Len(o.promotions)].code = promoCode
                 /\ o.promotions[Len(o.promotions)].reference = refKey
                 /\ ~o.promotions[Len(o.promotions)].activated
       /\ o.err # "none" => Unchanged(o)
       /\ o.items = items

\* C15 as stated: with valid arguments, a registration fails with
\* PromotionReferenceConflict whenever the reference has a bucket and with
\* PromotionCodeConflict whenever the code is already registered.
C15_ConflictWheneverEither ==
    /\ \A code \in RawCodes, reference \in RawReferences, offer \in PercentOffers :
           ValidPercentArgs(code, reference, offer[1], offer[2]) =>
               LET o == registerPromotion(code, reference, offer[1], offer[2])
               IN /\ Has(items, normalizeReference(reference))
                        => o.err = "PromotionReferenceConflict"
                  /\ HasCode(promotions, normalizePromotionCode(code))
                        => o.err = "PromotionCodeConflict"
    /\ \A code \in RawCodes, reference \in RawReferences, threshold \in ThresholdInputs :
           ValidBuyNArgs(code, reference, threshold) =>
               LET o == registerBuyNGetOnePromotion(code, reference, threshold)
               IN /\ Has(items, normalizeReference(reference))
                        => o.err = "PromotionReferenceConflict"
                  /\ HasCode(promotions, normalizePromotionCode(code))
                        => o.err = "PromotionCodeConflict"

\* C15 (amended): a registration with valid arguments fails with
\* PromotionReferenceConflict whenever its reference has a bucket in the
\* cart, and with PromotionCodeConflict whenever its code is already
\* registered (for a rule of either kind) and its reference has no bucket;
\* it succeeds when neither holds, so also for a reference whose stock has
\* been removed entirely; invalid arguments are reported by their own error
\* before either conflict. A code maps to at most one rule.
C15_ReferenceConflictBeforeCodeConflict ==
    /\ \A code \in RawCodes, reference \in RawReferences, offer \in PercentOffers :
           RegistrationOutcome(registerPromotion(code, reference, offer[1], offer[2]),
                               ValidPercentArgs(code, reference, offer[1], offer[2]),
                               code, reference)
    /\ \A code \in RawCodes, reference \in RawReferences, threshold \in ThresholdInputs :
           RegistrationOutcome(registerBuyNGetOnePromotion(code, reference, threshold),
                               ValidBuyNArgs(code, reference, threshold),
                               code, reference)
    /\ \A i \in Rules, j \in Rules : promotions[i].code = promotions[j].code => i = j

\* A state where one reference has a bucket and the other has none, a
\* percent code and a buy-N-get-one code are registered, and registrations
\* meet the reference conflict (even for a registered code), the code
\* conflict across kinds, and succeed on the absent reference with a new code.
C15_Witness ==
    \E R \in DOMAIN items, S \in {RefA, RefB} \ DOMAIN items :
    \E i \in Rules, j \in Rules :
        /\ promotions[i].type = "percent" /\ promotions[j].type = "buyNGetOne"
        /\ registerPromotion(promotions[i].code, R, 10, undefined).err
               = "PromotionReferenceConflict"
        /\ registerBuyNGetOnePromotion(promotions[i].code, S, 2).err
               = "PromotionCodeConflict"
        /\ registerPromotion(promotions[j].code, S, 10, undefined).err
               = "PromotionCodeConflict"
        /\ registerBuyNGetOnePromotion(promotions[j].code, R, 2).err
               = "PromotionReferenceConflict"

----------------------------------------------------------------------------
(* C16 *)

\* Every spelling of the code of an active promotion activates it again:
\* the call returns true and changes nothing.
ActivationIdempotent ==
    \A code \in RawCodes :
        ( /\ ~InvalidPromotionCode(code)
          /\ HasCode(promotions, normalizePromotionCode(code))
          /\ promotions[IndexOf(promotions, normalizePromotionCode(code))].activated )
        => LET o == activatePromotion(code)
           IN o.err = "none" /\ o.ret = TRUE /\ Unchanged(o)

\* A step keeps every registered rule at its place with its code, kind,
\* reference and parameters, and keeps an active rule active.
ActivationOneWay ==
    /\ Len(promotions') >= Len(promotions)
    /\ \A i \in Rules :
           /\ [promotions'[i] EXCEPT !.activated = FALSE]
                  = [promotions[i] EXCEPT !.activated = FALSE]
           /\ promotions[i].activated => promotions'[i].activated

\* C16: activation is one-way and idempotent: no step of any operation
\* (add and remove of the promotion's reference included) deactivates,
\* changes or unregisters a registered promotion, and while a promotion is
\* active every activatePromotion of its code returns true and changes no
\* state.
C16_ActivationOneWayIdempotent ==
    []ActivationIdempotent /\ [][ActivationOneWay]_vars

\* A state where a promotion is active while its reference holds no unit,
\* another reference is in the cart, and activating it again returns true.
C16_Witness ==
    \E i \in Rules :
        /\ promotions[i].activated
        /\ ~Has(items, promotions[i].reference)
        /\ items # EmptyMap
        /\ Len(promotions) = 2
        /\ activatePromotion(promotions[i].code).ret = TRUE
        /\ Unchanged(activatePromotion(promotions[i].code))

----------------------------------------------------------------------------
(* C17 *)

\* The rules registered on a reference
RulesOn(R) == { promotions[i] : i \in { k \in Rules : promotions[k].reference = R } }

\* C17: promotions on different references never block each other:
\* activatePromotion of a registered, inactive code returns true and marks
\* that promotion, and nothing else, active whenever no other active
\* promotion targets its own reference, whatever is active on other
\* references; and each discount applies to its own reference only: a
\* reference none of whose promotions is active is charged in full, and a
\* reference with an active percent promotion is charged by that percent.
C17_DifferentReferencesIndependent ==
    /\ \A j \in Rules :
           ( /\ ~promotions[j].activated
             /\ \A k \in Rules \ {j} :
                    promotions[k].reference = promotions[j].reference
                    => ~promotions[k].activated )
           => LET o == activatePromotion(promotions[j].code)
              IN /\ o.err = "none" /\ o.ret = TRUE
                 /\ o.promotions = [promotions EXCEPT ![j].activated = TRUE]
                 /\ o.items = items
    /\ \A R \in DOMAIN items :
           /\ (\A r \in RulesOn(R) : ~r.activated)
              => /\ calculateBucketAmount(R, items[R])
                       = SumOfFullPrice({ e \in Entries : e[1] = R })
                 /\ \A p \in DOMAIN items[R] :
                        getAmount(R, p).ret = p * 100 * items[R][p]
           /\ \A i \in ActivePercent(R) :
                 /\ calculateBucketAmount(R, items[R])
                       = PercentAmountOver(i, items[R], DOMAIN items[R])
                 /\ \A p \in DOMAIN items[R] :
                        getAmount(R, p).ret = PercentAmount(i, p, items[R][p])

\* A state where a 10% promotion on one reference and a 20% promotion on
\* another are both active, each reference holds one unit, and the total is
\* 90% of the first price plus 80% of the second.
C17_Witness ==
    \E i \in Rules, j \in Rules :
        /\ promotions[i].reference # promotions[j].reference
        /\ promotions[i].type = "percent" /\ promotions[i].percent = 10
        /\ promotions[j].type = "percent" /\ promotions[j].percent = 20
        /\ promotions[i].activated /\ promotions[j].activated
        /\ DOMAIN items = { promotions[i].reference, promotions[j].reference }
        /\ \E p \in DOMAIN items[promotions[i].reference],
              q \in DOMAIN items[promotions[j].reference] :
               /\ items[promotions[i].reference] = [x \in {p} |-> 1]
               /\ items[promotions[j].reference] = [x \in {q} |-> 1]
               /\ getAmount(promotions[i].reference, p).ret = p * 90
               /\ getAmount(promotions[j].reference, q).ret = q * 80
               /\ getTotalAmount.ret = p * 90 + q * 80

----------------------------------------------------------------------------
(* C18 *)

\* Price arguments of the queries: the prices of add, a negative and an
\* infinite one
QueryPrices == PriceInputs \cup { 0 - 10, Infinity }
\* p is a positive number
PositiveNumber(p) == p # NaN /\ p > 0

\* The error of a query outcome o on (reference, p) follows the order
\* reference existence, price format, price existence, and o changes nothing.
QueryOrder(o, reference, p) ==
    LET R == normalizeReference(reference)
    IN /\ Unchanged(o)
       /\ ~Has(items, R) => o.err = "ReferenceNotFound"
       /\ (Has(items, R) /\ ~PositiveNumber(p)) => o.err = "InvalidPrice"
       /\ (Has(items, R) /\ PositiveNumber(p) /\ ~Has(items[R], p))
              => o.err = "PriceNotFound"
       /\ (Has(items, R) /\ PositiveNumber(p) /\ Has(items[R], p)) => o.err = "none"

\* C18: for every non-blank reference R and every price p, getQuantity(R, p)
\* and getAmount(R, p) fail with ReferenceNotFound if R is absent, even when
\* p is not a valid price; otherwise with InvalidPrice if p is not a
\* positive number; otherwise with PriceNotFound if the bucket of R has no
\* entry at p; otherwise they succeed; none of these calls changes state.
C18_QueryCheckOrder ==
    \A reference \in RawReferences, p \in QueryPrices :
        ~InvalidReference(reference) =>
            /\ QueryOrder(getQuantity(reference, p), reference, p)
            /\ QueryOrder(getAmount(reference, p), reference, p)

\* A state where one reference is absent and the other holds one price but
\* not another, so that the queries meet ReferenceNotFound with an invalid
\* price, InvalidPrice, PriceNotFound and success.
C18_Witness ==
    \E R \in DOMAIN items, S \in {RefA, RefB} \ DOMAIN items :
    \E p \in DOMAIN items[R], q \in PriceInputs \ DOMAIN items[R] :
        /\ PositiveNumber(q)
        /\ getQuantity(S, NaN).err = "ReferenceNotFound"
        /\ getAmount(S, 0).err = "ReferenceNotFound"
        /\ getQuantity(R, 0).err = "InvalidPrice"
        /\ getAmount(R, NaN).err = "InvalidPrice"
        /\ getQuantity(R, q).err = "PriceNotFound"
        /\ getAmount(R, q).err = "PriceNotFound"
        /\ getQuantity(R, p).ret = items[R][p]
        /\ getAmount(R, p).err = "none"

----------------------------------------------------------------------------
(* C19 *)

\* p is a finite number greater than 0
FinitePositive(p) == p # NaN /\ p # Infinity /\ p > 0
\* q is a positive integer
PositiveInteger(q) == q # NaN /\ q # Infinity /\ q > 0

\* C19: add(R, price, q) fails with InvalidPrice for every price that is
\* not a finite number greater than 0 (zero, negative, NaN and infinite
\* alike), with InvalidQuantity for a quantity that is not a positive
\* integer (the price being valid), with InvalidReference for an empty or
\* whitespace-only reference (price and quantity being valid); and no
\* stored price key is non-finite or non-positive.
C19_AddRejectsNonFinitePrice ==
    /\ \A reference \in RawReferences, price \in PriceArgs, quantity \in QuantityArgs :
           LET o == add(reference, price, quantity)
           IN /\ ~FinitePositive(price) => o.err = "InvalidPrice"
              /\ (FinitePositive(price) /\ ~PositiveInteger(quantity))
                     => o.err = "InvalidQuantity"
              /\ ( /\ FinitePositive(price) /\ PositiveInteger(quantity)
                    /\ InvalidReference(reference) )
                     => o.err = "InvalidReference"
    /\ \A R \in DOMAIN items : \A p \in DOMAIN items[R] : FinitePositive(p)

\* A state where add has stored units at an infinite price next to units at
\* a finite one, and the total amount of the cart is infinite.
C19_Witness ==
    \E R \in DOMAIN items :
        /\ Has(items[R], Infinity)
        /\ \E p \in DOMAIN items[R] : FinitePositive(p)
        /\ add(R, Infinity, 1).err = "none"
        /\ getTotalAmount.ret = Infinity

----------------------------------------------------------------------------
(* C20 *)

\* The elements of a list
Range(s) == { s[i] : i \in DOMAIN s }

\* C20: in every reachable state getUnitPrices(R), for every spelling of a
\* reference R of the cart, is strictly ascending and contains exactly the
\* prices at which R holds a positive quantity, and getReferences() is
\* sorted and contains exactly the references that hold at least one unit,
\* each once; neither changes state.
C20_SortedAccessors ==
    /\ \A reference \in RawReferences :
           Has(items, normalizeReference(reference)) =>
               LET o == getUnitPrices(reference)
                   bucket == items[normalizeReference(reference)]
               IN /\ o.err = "none" /\ Unchanged(o)
                  /\ \A i \in DOMAIN o.ret, j \in DOMAIN o.ret :
                         i < j => o.ret[i] < o.ret[j]
                  /\ Range(o.ret) = { p \in DOMAIN bucket : bucket[p] > 0 }
                  /\ Range(o.ret) = DOMAIN bucket
    /\ LET o == getReferences
       IN /\ o.err = "none" /\ Unchanged(o)
          /\ \A i \in DOMAIN o.ret, j \in DOMAIN o.ret :
                 i < j => (o.ret[i] # o.ret[j] /\ StrLeq(o.ret[i], o.ret[j]))
          /\ Range(o.ret) = { R \in DOMAIN items : sumQuantities(items[R]) >= 1 }
          /\ Range(o.ret) = DOMAIN items
          /\ Len(o.ret) = Cardinality(DOMAIN items)

\* A state where two references are in the cart, one of them at two prices,
\* and the accessors list the references and the prices in ascending order.
C20_Witness ==
    /\ getReferences.ret = <<RefA, RefB>>
    /\ \E R \in DOMAIN items :
           /\ Cardinality(DOMAIN items[R]) = 2
           /\ Len(getUnitPrices(R).ret) = 2
           /\ getUnitPrices(R).ret[1] < getUnitPrices(R).ret[2]

----------------------------------------------------------------------------
(* C21 *)

\* C21: while no promotion on a reference R of the cart is active, whatever
\* is registered on R, getAmount(R, P) (for every spelling of R) is P times
\* the quantity at P and R contributes the sum of price times quantity to
\* getTotalAmount(); an activatePromotion call that returns false changes
\* no state, so this also holds after it.
C21_InactivePromotionHasNoEffect ==
    /\ \A reference \in RawReferences :
           LET R == normalizeReference(reference)
           IN ( Has(items, R) /\ \A r \in RulesOn(R) : ~r.activated )
              => /\ \A p \in DOMAIN items[R] :
                        /\ getAmount(reference, p).err = "none"
                        /\ getAmount(reference, p).ret = p * 100 * items[R][p]
                 /\ calculateBucketAmount(R, items[R])
                        = SumOfFullPrice({ e \in Entries : e[1] = R })
    /\ (\A i \in Rules : ~promotions[i].activated)
           => getTotalAmount.ret = SumOfFullPrice(Entries)
    /\ \A code \in RawCodes :
           LET o == activatePromotion(code)
           IN (o.err = "none" /\ o.ret = FALSE) => Unchanged(o)

\* A state where a reference holds a full block of a registered, inactive
\* buy-N-get-one promotion, an activatePromotion of another code returns
\* false, and the reference is charged in full.
C21_Witness ==
    \E i \in Rules :
        LET R == promotions[i].reference
        IN /\ promotions[i].type = "buyNGetOne" /\ ~promotions[i].activated
           /\ Has(items, R)
           /\ sumQuantities(items[R]) >= promotions[i].threshold + 1
           /\ \E code \in RawCodes : /\ activatePromotion(code).err = "none"
                                      /\ activatePromotion(code).ret = FALSE
           /\ getTotalAmount.ret = SumOfFullPrice(Entries)
           /\ \A p \in DOMAIN items[R] : getAmount(R, p).ret = p * 100 * items[R][p]

----------------------------------------------------------------------------
(* C22 *)

\* C22: a remove that passed its sufficiency check and took fewer units
\* than requested is one between whose check and drain another remove ran
\* its drain; a remove whose two halves run without such a step in between,
\* as they do when every operation is one step, takes exactly the requested
\* units and leaves what remove run as one step leaves. (That the
\* interleaved runs do reach a short removal is C22_Witness.)
C22_ShortRemovalOnlyWhenInterleaved ==
    \A c \in Callers :
        calls[c].pc = "done" =>
            /\ calls[c].taken < calls[c].quantity => calls[c].disturbed
            /\ ~calls[c].disturbed =>
                   /\ calls[c].taken = calls[c].quantity
                   /\ calls[c].left = calls[c].expect

\* A state where a remove that passed its check has returned without error
\* after taking fewer units than requested.
C22_Witness ==
    \E c \in Callers :
        /\ calls[c].pc = "done"
        /\ calls[c].taken < calls[c].quantity
        /\ calls[c].disturbed

----------------------------------------------------------------------------
(* C23 *)

\* C23: in every reachable state, for every reference R, the sum of the
\* quantities of the successful add(R, _, q) minus that of the successful
\* remove(R, q) is never negative; when it is 0, R is absent and
\* getQuantity(R) fails with ReferenceNotFound; otherwise getQuantity(R),
\* the sum over the price entries of R, returns it; the promotion operations
\* leave the item map, so every quantity, as it is.
C23_QuantityConserved ==
    /\ \A R \in References :
           /\ ledger[R] >= 0
           /\ ledger[R] = 0 =>
                  /\ ~Has(items, R)
                  /\ getQuantity(R, undefined).err = "ReferenceNotFound"
           /\ ledger[R] > 0 =>
                  /\ getQuantity(R, undefined).err = "none"
                  /\ getQuantity(R, undefined).ret = ledger[R]
                  /\ SumValues(items[R], DOMAIN items[R]) = ledger[R]
    /\ \A code \in RawCodes, reference \in RawReferences :
           /\ \A offer \in PercentOffers :
                  registerPromotion(code, reference, offer[1], offer[2]).items = items
           /\ \A threshold \in ThresholdInputs :
                  registerBuyNGetOnePromotion(code, reference, threshold).items = items
           /\ activatePromotion(code).items = items

\* A state where one reference holds units at two prices, the other holds
\* none, a promotion is active, and getQuantity returns the balance of the
\* successful adds and removes of each.
C23_Witness ==
    \E R \in References, S \in References :
        /\ ledger[R] >= 2 /\ ledger[S] = 0
        /\ Cardinality(DOMAIN items[R]) = 2
        /\ getQuantity(R, undefined).ret = ledger[R]
        /\ getQuantity(S, undefined).err = "ReferenceNotFound"
        /\ \E i \in Rules : promotions[i].activated

----------------------------------------------------------------------------
(* C24 *)

\* Quantities removed in two calls
SplitQuantities == { 1, 2, 3 }

\* The step is a successful remove(R, a), and for every b: when a + b does
\* not exceed the total of R, remove(R, b) then succeeds and leaves the
\* item map remove(R, a + b) would have left in one call; when a is the
\* total, remove(R, b) then fails with ReferenceNotFound.
RemoveThenRemove(R, a) ==
    ( /\ items' # items
      /\ Has(items, R)
      /\ ledger'[R] = ledger[R] - a
      /\ remove(R, a).err = "none"
      /\ items' = remove(R, a).items )
    => \A b \in SplitQuantities :
           /\ a + b <= sumQuantities(items[R])
                  => /\ remove(R, a + b).err = "none"
                     /\ remove(R, b)' = remove(R, a + b)
           /\ a = sumQuantities(items[R])
                  => remove(R, b)' = Throw("ReferenceNotFound", items', promotions')

\* C24: removal is additive: for every cart state and positive integers a
\* and b with a + b not exceeding the total quantity of R, remove(R, a)
\* followed by remove(R, b) leaves exactly the item map of a single
\* remove(R, a + b); when a equals the total, the second remove fails with
\* ReferenceNotFound.
C24_RemoveAdditive ==
    [][\A R \in References, a \in SplitQuantities : RemoveThenRemove(R, a)]_vars

\* A state where a reference holds three units at two prices, so that
\* removing them in one call or in two calls crosses from the most expensive
\* entry into the next one, and removing them all deletes the reference.
C24_Witness ==
    \E R \in DOMAIN items :
        /\ sumQuantities(items[R]) = 3
        /\ Cardinality(DOMAIN items[R]) = 2
        /\ remove(R, 1).err = "none"
        /\ remove(R, 2).err = "none"
        /\ remove(R, 3).items = EmptyMap

----------------------------------------------------------------------------
(* C25 *)

\* Quantities of the add calls compared in the two orders
OrderQuantities == { 1, 2 }

\* After a step of add that changed the cart, every activatePromotion
\* returns what it would have returned before the step and leaves the
\* registry it would have left.
ActivateAfterAdd ==
    items' # items =>
        \A code \in RawCodes :
            activatePromotion(code)' = [activatePromotion(code) EXCEPT !.items = items']

\* After a step of activatePromotion that changed the registry, every add
\* fails or succeeds as it would have before the step and leaves the item
\* map it would have left.
AddAfterActivate ==
    promotions' # promotions =>
        \A reference \in {RefA, RefB}, price \in PriceInputs, quantity \in OrderQuantities :
            add(reference, price, quantity)'
                = [add(reference, price, quantity) EXCEPT !.promotions = promotions']

\* C25: for a registered promotion, activatePromotion(code) before
\* add(R, P, q) and add(R, P, q) before activatePromotion(code) give the
\* same activation result and the same state (item map and registry), hence
\* the same getAmount and getTotalAmount values, which are computed from
\* that state alone: a step of one call changes neither the result nor the
\* effect of the other.
C25_AddAndActivateCommute ==
    [][ActivateAfterAdd /\ AddAfterActivate]_vars

\* A state where a promotion is active, its reference holds units the
\* promotion makes cheaper, and a further add and a further activation are
\* both possible.
C25_Witness ==
    \E i \in Rules, j \in Rules :
        LET R == promotions[i].reference
        IN /\ promotions[i].activated /\ ~promotions[j].activated
           /\ Has(items, R)
           /\ getTotalAmount.ret < SumOfFullPrice(Entries)
           /\ add(R, 10, 1).err = "none"
           /\ activatePromotion(promotions[j].code).ret = TRUE

----------------------------------------------------------------------------
(* C26 *)

\* C26: in every reachable state, for every entry (R, P), the free units
\* allocated at P are at most the quantity at P, so that max(0, quantity -
\* free) is quantity - free; 0 <= getAmount(R, P) <= P times the quantity
\* at P; and 0 <= getTotalAmount() <= the sum of price times quantity over
\* the cart.
C26_AmountsWithinBounds ==
    /\ \A R \in DOMAIN items :
           LET bucket == items[R]
               freebies == buildFreebieAllocation(R, bucket)
           IN /\ DOMAIN freebies \subseteq DOMAIN bucket
              /\ \A p \in DOMAIN bucket :
                     /\ FreeAt(freebies, p) >= 0
                     /\ FreeAt(freebies, p) <= bucket[p]
                     /\ Max(0, bucket[p] - FreeAt(freebies, p))
                            = bucket[p] - FreeAt(freebies, p)
                     /\ getAmount(R, p).err = "none"
                     /\ getAmount(R, p).ret >= 0
                     /\ getAmount(R, p).ret <= p * 100 * bucket[p]
              /\ calculateBucketAmount(R, bucket) >= 0
              /\ calculateBucketAmount(R, bucket)
                     <= SumValues([p \in DOMAIN bucket |-> p * 100 * bucket[p]], DOMAIN bucket)
    /\ getTotalAmount.ret >= 0
    /\ getTotalAmount.ret
           <= SumValues([R \in DOMAIN items |->
                           SumValues([p \in DOMAIN items[R] |-> p * 100 * items[R][p]],
                                     DOMAIN items[R])],
                        DOMAIN items)

\* A state where an active buy-N-get-one promotion frees two units, one
\* entry is entirely free (amount 0), another is charged in full, and the
\* total is below the undiscounted sum.
C26_Witness ==
    \E i \in Rules :
        /\ ActiveBuyN(i)
        /\ Has(items, promotions[i].reference)
        /\ LET R == promotions[i].reference
               freebies == buildFreebieAllocation(R, items[R])
           IN /\ SumValues(freebies, DOMAIN freebies) = 2
              /\ \E p \in DOMAIN items[R], q \in DOMAIN items[R] :
                     /\ getAmount(R, p).ret = 0
                     /\ getAmount(R, q).ret = q * 100 * items[R][q]
              /\ getTotalAmount.ret > 0
              /\ getTotalAmount.ret
                     < SumValues([p \in DOMAIN items[R] |-> p * 100 * items[R][p]],
                                 DOMAIN items[R])

----------------------------------------------------------------------------
(* C27 *)

\* The outcome o leaves the bucket of every reference but R, and the whole
\* registry, as they are.
OnlyBucketOf(R, o) ==
    /\ o.promotions = promotions
    /\ DOMAIN o.items \ {R} = DOMAIN items \ {R}
    /\ \A S \in DOMAIN items \ {R} : o.items[S] = items[S]

\* C27: add and remove on a reference R change nothing but the bucket of R
\* (the buckets of the other references and the registry with its codes,
\* rule fields and activation flags stay); registerPromotion,
\* registerBuyNGetOnePromotion and activatePromotion never change the item
\* map; the queries change no state at all.
C27_FrameOfEachOperation ==
    /\ \A reference \in RawReferences :
           /\ \A price \in PriceInputs, quantity \in QuantityInputs :
                  OnlyBucketOf(normalizeReference(reference), add(reference, price, quantity))
           /\ \A quantity \in QuantityInputs :
                  OnlyBucketOf(normalizeReference(reference), remove(reference, quantity))
           /\ Unchanged(getUnitPrices(reference))
           /\ \A price \in PriceInputs \cup {undefined} :
                  Unchanged(getQuantity(reference, price))
           /\ \A price \in PriceInputs : Unchanged(getAmount(reference, price))
    /\ \A code \in RawCodes :
           /\ \A reference \in RawReferences :
                  /\ \A offer \in PercentOffers :
                         registerPromotion(code, reference, offer[1], offer[2]).items = items
                  /\ \A threshold \in ThresholdInputs :
                         registerBuyNGetOnePromotion(code, reference, threshold).items = items
           /\ activatePromotion(code).items = items
    /\ Unchanged(getTotalAmount)
    /\ Unchanged(getReferences)

\* A state where both references hold units and a promotion is active, and
\* an add and a remove on one reference change its bucket and nothing else.
C27_Witness ==
    /\ DOMAIN items = {RefA, RefB}
    /\ \E i \in Rules : promotions[i].activated
    /\ \E p \in PriceInputs :
           /\ add(RefA, p, 1).err = "none"
           /\ add(RefA, p, 1).items[RefA] # items[RefA]
           /\ add(RefA, p, 1).items[RefB] = items[RefB]
    /\ remove(RefB, 1).err = "none"
    /\ remove(RefB, 1).items # items
    /\ remove(RefB, 1).items[RefA] = items[RefA]

----------------------------------------------------------------------------
(* C28 *)

\* The call of the promotion-free cart and the call of the promotion-aware
\* cart end alike: same error, same value returned, same item map.
SameOutcome(plain, aware) ==
    /\ plain.err = aware.err
    /\ plain.ret = aware.ret
    /\ plain.items = aware.items

\* C28: while no promotion has been activated, every add, remove and query
\* call made on the promotion-free cart holding the same item map returns
\* the same result or fails with the same error as on the promotion-aware
\* cart, and leaves the same item map; so the two carts, run side by side
\* on the same calls, hold the same item map after every step.
C28_RefinesPromotionFreeCart ==
    (\A i \in Rules : ~promotions[i].activated) =>
        /\ \A reference \in RawReferences :
               /\ \A price \in PriceInputs, quantity \in QuantityInputs :
                      SameOutcome(plainAdd(items, reference, price, quantity),
                                  add(reference, price, quantity))
               /\ \A quantity \in QuantityInputs :
                      SameOutcome(plainRemove(items, reference, quantity),
                                  remove(reference, quantity))
               /\ SameOutcome(plainGetUnitPrices(items, reference), getUnitPrices(reference))
               /\ \A price \in PriceInputs \cup {undefined} :
                      SameOutcome(plainGetQuantity(items, reference, price),
                                  getQuantity(reference, price))
               /\ \A price \in PriceInputs :
                      SameOutcome(plainGetAmount(items, reference, price),
                                  getAmount(reference, price))
        /\ SameOutcome(plainGetTotalAmount(items), getTotalAmount)
        /\ SameOutcome(plainGetReferences(items), getReferences)

\* A state where the cart holds units, a promotion is registered and
\* inactive, and an add with a blank reference and an invalid price or
\* quantity fails with a different error on the two carts.
C28_Witness ==
    /\ items # EmptyMap
    /\ promotions # << >>
    /\ \A i \in Rules : ~promotions[i].activated
    /\ plainAdd(items, <<Blank>>, 0, 1).err = "InvalidReference"
    /\ add(<<Blank>>, 0, 1).err = "InvalidPrice"
    /\ plainAdd(items, <<Blank>>, 10, 0).err = "InvalidReference"
    /\ add(<<Blank>>, 10, 0).err = "InvalidQuantity"
    /\ SameOutcome(plainGetTotalAmount(items), getTotalAmount)

====
